---- MODULE Spec2Model ----
(***************************************************************************)
(* Model of the poo-tee-weet worker (worker/src/index.ts): the Document    *)
(* Actor (DocumentDO) that owns one document record, its persistence guard *)
(* and its realtime session set.                                           *)
(*                                                                         *)
(* Concurrency model: every handler invocation ("turn") runs atomically    *)
(* between two awaits of I/O (storage.get, storage.put, a fetch to another *)
(* actor, an awaited promise).  At such an await the turn is suspended and *)
(* other turns of the same actor may run.  Continuations of an awaited     *)
(* promise that has settled run before any new event is delivered.         *)
(***************************************************************************)
EXTENDS Integers, Sequences, FiniteSets, TLC

\* ------------------------------------------------------------------------
\* Bounds of the model
\* ------------------------------------------------------------------------
MaxWrites == 3

Users == {"u1", "u2"}
TurnOrder == <<"t1", "t2">>
Turns == {TurnOrder[i] : i \in 1..Len(TurnOrder)}
SocketOrder == <<"s1", "s2", "s3">>
Sockets == {SocketOrder[i] : i \in 1..Len(SocketOrder)}
DocIds == {"d1"}

\* The instants that new Date() may return: a read returns the same instant as
\* the read before it or a later one
Times == {0, 1}
Later(c) == {n \in Times : n >= c}

\* ------------------------------------------------------------------------
\* Tags: a tag is a sequence of one-character strings
\* ------------------------------------------------------------------------
MAX_TAGS_PER_DOCUMENT == 20
MAX_TAG_LENGTH == 48

Whitespace == {" ", "\t"}

Min(a, b) == IF a < b THEN a ELSE b

Lower(c) == IF c = "A" THEN "a" ELSE IF c = "B" THEN "b" ELSE c

toLowerCase(s) == [i \in 1..Len(s) |-> Lower(s[i])]

\* value.replace(/\s+/g, ' ')
RECURSIVE CollapseWs(_)
CollapseWs(s) ==
  IF s = <<>> THEN <<>>
  ELSE IF Head(s) \in Whitespace
       THEN IF Len(s) > 1 /\ s[2] \in Whitespace
            THEN CollapseWs(Tail(s))
            ELSE <<" ">> \o CollapseWs(Tail(s))
       ELSE <<Head(s)>> \o CollapseWs(Tail(s))

RECURSIVE TrimStart(_)
TrimStart(s) ==
  IF s # <<>> /\ Head(s) \in Whitespace THEN TrimStart(Tail(s)) ELSE s

RECURSIVE TrimEnd(_)
TrimEnd(s) ==
  IF s # <<>> /\ s[Len(s)] \in Whitespace
  THEN TrimEnd(SubSeq(s, 1, Len(s) - 1))
  ELSE s

\* String.prototype.trim
Trim(s) == TrimEnd(TrimStart(s))

\* String.prototype.slice(0, n)
Slice(s, n) == SubSeq(s, 1, Min(n, Len(s)))

\* The null result of sanitizeTagValue; a non-null result is never empty.
NullTag == <<>>

sanitizeTagValue_NoCut(value) ==
  LET trimmed == Trim(CollapseWs(value))
  IN IF trimmed = <<>> THEN NullTag ELSE trimmed

sanitizeTagValue(value) ==
  LET trimmed == Trim(CollapseWs(value))
  IN IF trimmed = <<>> THEN NullTag ELSE Slice(trimmed, MAX_TAG_LENGTH)

\* The loop of normalizeTagsInput over an array value.
RECURSIVE NormalizeLoop(_, _, _)
NormalizeLoop(items, normalized, seen) ==
  IF items = <<>> THEN normalized
  ELSE LET sanitized == sanitizeTagValue(Head(items))
           key == toLowerCase(sanitized)
       IN IF sanitized = NullTag THEN NormalizeLoop(Tail(items), normalized, seen)
          ELSE IF key \in seen THEN NormalizeLoop(Tail(items), normalized, seen)
          ELSE IF Len(normalized) + 1 >= MAX_TAGS_PER_DOCUMENT
               THEN Append(normalized, sanitized)
               ELSE NormalizeLoop(Tail(items), Append(normalized, sanitized),
                                  seen \cup {key})

\* normalizeTagsInput on an array; a non-array value yields null, which the
\* callers test with the hasTags flag of the body.
normalizeTagsInput(value) == NormalizeLoop(value, <<>>, {})

ensureDocumentTags(hasTags, value) ==
  IF hasTags THEN normalizeTagsInput(value) ELSE <<>>

\* ------------------------------------------------------------------------
\* Records, request bodies and messages
\* ------------------------------------------------------------------------
\* null for a DocumentRecord (this.document = null, an empty storage slot)
NoDoc ==
  [docId |-> "", ownerId |-> "", title |-> "", content |-> "", tags |-> <<>>,
   createdAt |-> 0, updatedAt |-> 0, version |-> 0]

\* An absent (undefined) field of a JSON body
Omitted == "<omitted>"

TagsIn == << <<"A">>, <<" ", "a", "\t">>, <<"b", "\t", " ", "c">> >>

\* The title / content / tags parts of the bodies that clients send
UpdateFields ==
  { [title |-> "T1", content |-> Omitted, hasTags |-> FALSE, tags |-> <<>>],
    [title |-> Omitted, content |-> "C1", hasTags |-> TRUE, tags |-> TagsIn] }

MkBody(f, init, owner, hasId, id) ==
  [title |-> f.title, content |-> f.content, hasTags |-> f.hasTags, tags |-> f.tags,
   initialize |-> init, ownerId |-> owner, hasId |-> hasId, id |-> id]

NoBody == MkBody([title |-> Omitted, content |-> Omitted, hasTags |-> FALSE,
                  tags |-> <<>>], FALSE, Omitted, FALSE, 0)

\* Bodies of POST /documents/:id
WriteBodies ==
  { MkBody(f, FALSE, Omitted, FALSE, 0) : f \in UpdateFields } \cup
  { MkBody(f, TRUE, owner, FALSE, 0) :
      f \in {g \in UpdateFields : g.title # Omitted}, owner \in Users \cup {Omitted} }

\* Payloads of {type:"update"} messages: id is a number or absent
UpdatePayloads ==
  { MkBody(f, FALSE, Omitted, f.title # Omitted, IF f.title # Omitted THEN 5 ELSE 0) :
      f \in UpdateFields }

MessageKinds == {"malformed", "ping", "unknown", "update"}

Msg(type, hasId, id, doc, ts) ==
  [type |-> type, hasId |-> hasId, id |-> id, document |-> doc, timestamp |-> ts]

\* ------------------------------------------------------------------------
\* State
\* ------------------------------------------------------------------------
VARIABLES
  document,      \* DocumentDO.document
  dirty,         \* DocumentDO.dirty
  persist,       \* DocumentDO.persistPromise and the stage of its async body
  connections,   \* DocumentDO.connections: socket -> [userId]
  storage,       \* the 'document' slot of state.storage
  putQueue,      \* storage.put calls issued and not yet completed, in order
  turn,          \* the handler invocations: position and locals
  sent,          \* output: the messages the last step sent, in order
  response,      \* output: the HTTP response the last step returned
  clock,         \* the last value read from new Date()
  accepted,      \* history: versions of the records built by accepted writes
  lastAccepted,  \* history: the record built by the latest accepted write
  persistedMax   \* history: highest version of a completed storage write

\* The Index Actor of one user (UserIndexDO)
VARIABLES
  initializedUserId,  \* UserIndexDO.initializedUserId
  indexStore,         \* its storage: the slots 'userId' and 'index'
  indexPuts,          \* its storage.put calls issued and not yet completed
  indexTurn,          \* its handler invocations: position and locals
  indexResponse       \* output: the response its last step returned

indexVars ==
  <<initializedUserId, indexStore, indexPuts, indexTurn, indexResponse>>

\* The Router (the Worker's fetch handler)
VARIABLES
  workerEnv,       \* env: CLERK_SECRET_KEY and ALLOWED_ORIGINS
  routerTurn,      \* the invocation of fetch: position and locals
  routerCalls,     \* the actors that the invocation has sent a request to
  routerResponse   \* output: the response the last step returned, or the throw

routerVars == <<workerEnv, routerTurn, routerCalls, routerResponse>>

\* The runtime's sockets
VARIABLES
  broken           \* the server sockets whose send throws: the peer is gone

\* The client (client/src/App.svelte) and its realtime connection
VARIABLES
  client,          \* the component's state: the let-bindings of the script
  channel          \* the WebSocket it holds: readyState and frames in flight

clientVars == <<client, channel>>

vars ==
  <<document, dirty, persist, connections, storage, putQueue, turn, sent,
    response, clock, accepted, lastAccepted, persistedMax,
    initializedUserId, indexStore, indexPuts, indexTurn, indexResponse,
    workerEnv, routerTurn, routerCalls, routerResponse, broken, client, channel>>

\* ------------------------------------------------------------------------
\* The client: its state when initializeDocument has loaded a document
\* ------------------------------------------------------------------------
\* The documents of the signed-in user that the sidebar lists
ClientDocs == {"d1", "d2"}

\* What the editor can hold, in the order in which the user's edits produce
\* it; a document that is loaded or created shows the first of them
ContentOrder == <<"c0", "c1", "c2">>

Contents == {ContentOrder[i] : i \in 1..Len(ContentOrder)}

\* The WebSocket objects, in the order in which new WebSocket(url) makes them
ClientSocketOrder == <<"w1", "w2">>

\* null, for a payload, a socket and a document id
NoPayload == ""

NoSocket == ""

NoClientDoc == ""

\* No payload has been captured for the document on screen
NoCapture == [doc |-> NoClientDoc, content |-> NoPayload]

\* The let-bindings of the component after initializeDocument has loaded
\* "d1" and is waiting for the session token of its first connection
ClientAtStart ==
  [docId |-> "d1", content |-> ContentOrder[1], isDirty |-> FALSE,
   realtimeSocket |-> NoSocket, realtimeDocId |-> NoClientDoc,
   desiredRealtimeDocId |-> "d1",
   realtimeSendTimer |-> FALSE,
   realtimeReconnectTimer |-> NoClientDoc,
   pendingRealtimePayload |-> NoPayload,
   pendingAckIds |-> {}, ackResolvers |-> {}, clientMessageCounter |-> 0,
   tokenWait |-> {"d1"},
   pc |-> "idle", candidateId |-> NoClientDoc, previousDocId |-> NoClientDoc,
   lastCaptured |-> NoCapture, sentLog |-> {}]

\* No WebSocket has been made yet
NoChannel == [sock |-> NoSocket, state |-> "none", up |-> <<>>, down |-> <<>>,
              used |-> 0]

InitClient ==
  /\ client = ClientAtStart
  /\ channel = NoChannel

\* A socket that is not a key of the connections map
NoSession == ""

Registered == {s \in Sockets : connections[s] # NoSession}

NoPersist == [stage |-> "none", rec |-> NoDoc]

IdleTurn ==
  [pc |-> "idle", op |-> "none", user |-> "", docId |-> "", ws |-> "",
   body |-> NoBody, now |-> 0, rec |-> NoDoc, force |-> FALSE, waiter |-> FALSE,
   status |-> 0]

\* No HTTP response was returned by the step
NoResp ==
  [op |-> "none", user |-> "", docId |-> "", body |-> NoBody, status |-> 0,
   document |-> NoDoc, ws |-> ""]

\* A response, with the request it answers
Resp(tr, status, doc, ws) ==
  [op |-> tr.op, user |-> tr.user, docId |-> tr.docId, body |-> tr.body,
   status |-> status, document |-> doc, ws |-> ws]

\* this.initializedUserId = null, and an absent 'userId' slot
NoUser == ""

IndexTurnOrder == <<"i1", "i2">>
IndexTurns == {IndexTurnOrder[i] : i \in 1..Len(IndexTurnOrder)}

\* Documents the index of the user may list
IndexDocIds == {"d1", "d2"}

\* No entry under a docId of the index object
NoEntry ==
  [docId |-> "", title |-> "", tags |-> <<>>, updatedAt |-> 0, createdAt |-> 0,
   version |-> 0]

\* An absent 'index' slot, read as {}
EmptyIndex == [d \in IndexDocIds |-> NoEntry]

\* The DocumentMetadata that upsertIndex builds, lines 578-585
Projection(doc) ==
  [docId |-> doc.docId, title |-> doc.title,
   tags |-> ensureDocumentTags(TRUE, doc.tags),
   updatedAt |-> doc.updatedAt, createdAt |-> doc.createdAt,
   version |-> doc.version]

Upsert_KeepsNewer(entries, doc) ==
  IF entries[doc.docId].version > doc.version THEN entries
  ELSE [entries EXCEPT ![doc.docId] = Projection(doc)]

\* entries[document.docId] = {...}, lines 578-585
Upsert(entries, doc) == [entries EXCEPT ![doc.docId] = Projection(doc)]

\* The own keys of the entries object after that assignment, in insertion
\* order: a new key comes last, a known key keeps its place
InsertKey(keys, docId) ==
  IF \E k \in 1..Len(keys) : keys[k] = docId THEN keys ELSE Append(keys, docId)

\* Object.values(entries), line 494
Values(entries, keys) == [k \in 1..Len(keys) |-> entries[keys[k]]]

InsertByUpdatedAt_Ascending(sorted, e) ==
  LET n == Cardinality({k \in 1..Len(sorted) : sorted[k].updatedAt <= e.updatedAt})
  IN SubSeq(sorted, 1, n) \o <<e>> \o SubSeq(sorted, n + 1, Len(sorted))

\* One entry takes its place in the sorted list: behind the entries that the
\* comparator of lines 494-496 does not put after it (the sort is stable)
InsertByUpdatedAt(sorted, e) ==
  LET n == Cardinality({k \in 1..Len(sorted) : sorted[k].updatedAt >= e.updatedAt})
  IN SubSeq(sorted, 1, n) \o <<e>> \o SubSeq(sorted, n + 1, Len(sorted))

RECURSIVE SortByUpdatedAt(_)
\* list.sort((a, b) => time(b.updatedAt) - time(a.updatedAt)), lines 494-496
SortByUpdatedAt(list) ==
  IF list = <<>> THEN <<>>
  ELSE InsertByUpdatedAt(SortByUpdatedAt(SubSeq(list, 1, Len(list) - 1)),
                         list[Len(list)])

\* The documents that listDocs returns, lines 492-502
listDocs(entries, keys) == SortByUpdatedAt(Values(entries, keys))

IdleIndexTurn ==
  [pc |-> "idle", op |-> "none", user |-> "", docId |-> "", body |-> NoBody,
   rec |-> NoDoc, entries |-> EmptyIndex, status |-> 0, origin |-> ""]

\* No response was returned by the step of the Index Actor
NoIndexResp ==
  [op |-> "none", user |-> "", docId |-> "", rec |-> NoDoc, status |-> 0,
   document |-> NoDoc, entries |-> EmptyIndex, documents |-> <<>>,
   origin |-> ""]

\* A response of the Index Actor, with the request it answers
IndexResp(tr, status, doc, entries) ==
  [op |-> tr.op, user |-> tr.user, docId |-> tr.docId,
   rec |-> IF tr.op = "sync" THEN tr.rec ELSE NoDoc, status |-> status,
   document |-> doc, entries |-> entries, documents |-> <<>>,
   origin |-> tr.origin]

\* The Index Actor after construction, with empty storage
InitIndex ==
  /\ initializedUserId = NoUser
  /\ indexStore = [userId |-> NoUser, index |-> EmptyIndex, keys |-> <<>>]
  /\ indexPuts = <<>>
  /\ indexTurn = [i \in IndexTurns |-> IdleIndexTurn]
  /\ indexResponse = NoIndexResp

\* ALLOWED_ORIGINS not set: undefined
Unset == <<>>

\* A request header that is absent: headers.get returns null
NoHeader == ""

\* No request
NoRequest ==
  [method |-> "", path |-> "", upgrade |-> FALSE, bearer |-> "none",
   queryAuth |-> "none", origin |-> NoHeader, json |-> FALSE]

IdleRouterTurn == [pc |-> "idle", req |-> NoRequest, userId |-> "", op |-> ""]

\* Response headers without the CORS headers
NoCors == [allowOrigin |-> "", credentials |-> FALSE, vary |-> ""]

\* No response was returned by the step of the Router
NoRouterResp == [req |-> NoRequest, status |-> 0, shape |-> "none", cors |-> NoCors]

\* The environment of a deployment with its secret, open to every origin
DefaultEnv == [secret |-> TRUE, allowed |-> Unset]

\* The Router before a request, in a deployment with one of the environments
InitRouter(envs) ==
  /\ workerEnv \in envs
  /\ routerTurn = IdleRouterTurn
  /\ routerCalls = <<>>
  /\ routerResponse = NoRouterResp

\* The Document Actor after construction, with empty storage
InitDocument ==
  /\ document = NoDoc
  /\ dirty = FALSE
  /\ persist = NoPersist
  /\ connections = [s \in Sockets |-> NoSession]
  /\ storage = NoDoc
  /\ putQueue = <<>>
  /\ turn = [t \in Turns |-> IdleTurn]
  /\ sent = <<>>
  /\ response = NoResp
  /\ clock = 0
  /\ accepted = <<>>
  /\ lastAccepted = NoDoc
  /\ persistedMax = 0
  /\ broken = {}
  /\ InitClient

Init ==
  /\ InitIndex
  /\ InitRouter({DefaultEnv})
  /\ InitDocument

\* ------------------------------------------------------------------------
\* Helpers of the handlers
\* ------------------------------------------------------------------------
\* No continuation of a settled promise is pending: a new event is delivered
\* only after the continuations have run.
NoResume == \A t \in Turns : turn[t].pc # "resume"

\* What the last step sent and returned has been handed to the sockets and to
\* the caller
Delivered == sent = <<>> /\ response = NoResp

\* The actor is ready for the next event
Ready == NoResume /\ Delivered

\* Writes that may still be accepted by turns waiting in ensureDocumentLoaded
InFlightWrites ==
  Cardinality({t \in Turns : turn[t].pc = "load" /\ turn[t].op \in {"write", "update"}})

MayAcceptWrite == Len(accepted) + InFlightWrites < MaxWrites

\* ensureDocumentLoaded, lines 893-908: the value of this.document after it,
\* given what storage.get returned
Hydrate(stored) ==
  IF stored = NoDoc THEN NoDoc
  ELSE [stored EXCEPT !.tags = ensureDocumentTags(TRUE, stored.tags)]

\* A create branch that stamps updatedAt after createdAt
NewRecord_LaterUpdatedAt(docId, ownerId, body, now) ==
  [docId |-> docId, ownerId |-> ownerId,
   title |-> IF body.title = Omitted THEN "" ELSE body.title,
   content |-> IF body.content = Omitted THEN "" ELSE body.content,
   tags |-> ensureDocumentTags(body.hasTags, body.tags),
   createdAt |-> now, updatedAt |-> now + 1, version |-> 1]

\* The record built by the create branch of writeDocument, lines 845-854
NewRecord(docId, ownerId, body, now) ==
  [docId |-> docId, ownerId |-> ownerId,
   title |-> IF body.title = Omitted THEN "" ELSE body.title,
   content |-> IF body.content = Omitted THEN "" ELSE body.content,
   tags |-> ensureDocumentTags(body.hasTags, body.tags),
   createdAt |-> now, updatedAt |-> now, version |-> 1]

\* The merge of writeDocument (lines 873-881) and handleRealtimeUpdate (775-784)
MergeRecord(existing, body, now) ==
  [existing EXCEPT
     !.title = IF body.title = Omitted THEN existing.title ELSE body.title,
     !.content = IF body.content = Omitted THEN existing.content ELSE body.content,
     !.tags = IF body.hasTags THEN normalizeTagsInput(body.tags) ELSE existing.tags,
     !.updatedAt = now,
     !.version = existing.version + 1]

\* body.ownerId ?? userId, line 837
InitOwner(body, userId) == IF body.ownerId = Omitted THEN userId ELSE body.ownerId

\* readDocument without the ownership check of lines 810-812
ReadStatus_NoOwnerCheck(record, userId) == IF record = NoDoc THEN 404 ELSE 200

\* readDocument after ensureDocumentLoaded, lines 801-818
ReadStatus(record, userId) ==
  IF record = NoDoc THEN 404 ELSE IF record.ownerId # userId THEN 403 ELSE 200

\* writeDocument creating a missing document whatever the body says
WriteReject_AlwaysCreates(existing, userId, body) ==
  IF existing = NoDoc THEN 0
  ELSE IF existing.ownerId # userId THEN 403 ELSE 0

\* writeDocument after ensureDocumentLoaded, lines 829-871: the status of an
\* early return, or 0 when the write goes on to build a record
WriteReject(existing, userId, body) ==
  IF existing = NoDoc
  THEN IF ~body.initialize THEN 404
       ELSE IF InitOwner(body, userId) # userId THEN 403 ELSE 0
  ELSE IF existing.ownerId # userId THEN 403 ELSE 0

\* handleRealtimeSync after ensureDocumentLoaded, lines 684-696
UpgradeReject(record, userId) ==
  IF record = NoDoc THEN 404 ELSE IF record.ownerId # userId THEN 403 ELSE 0

\* The flag that the async body of persistNow assigns after syncIndex, line 942
DirtyAfterPersist(isDirty) == FALSE

\* The test of persistNow after the awaited persistence settled, line 932
RetryNeeded(force, isDirty) == force \/ isDirty

\* A send that never reaches the socket
SendTo_Lost(out, conn, ws, msg) == out

\* ws.send(msg) on socket ws appended to the messages out; a send on a socket
\* that has closed is dropped, and a send that throws delivers nothing
SendTo(out, conn, ws, msg) ==
  IF conn[ws] # NoSession /\ ws \notin broken
  THEN Append(out, [to |-> ws, msg |-> msg])
  ELSE out

\* A fan-out whose loop ends at the first send that throws
RECURSIVE FanOut_StopsAtFailure(_, _, _, _, _)
FanOut_StopsAtFailure(out, conn, origin, msg, i) ==
  IF i > Len(SocketOrder) THEN out
  ELSE IF SocketOrder[i] = origin \/ conn[SocketOrder[i]] = NoSession
       THEN FanOut_StopsAtFailure(out, conn, origin, msg, i + 1)
       ELSE IF SocketOrder[i] \in broken THEN out
            ELSE FanOut_StopsAtFailure(
                   Append(out, [to |-> SocketOrder[i], msg |-> msg]), conn, origin,
                   msg, i + 1)

\* broadcastToOthers, lines 910-920: the sockets of the map in insertion
\* order, which is the order of SocketOrder here; a send that throws is
\* caught and logged (lines 914-918) and the loop goes on
RECURSIVE FanOut(_, _, _, _, _)
FanOut(out, conn, origin, msg, i) ==
  IF i > Len(SocketOrder) THEN out
  ELSE IF /\ SocketOrder[i] # origin
          /\ conn[SocketOrder[i]] # NoSession
          /\ SocketOrder[i] \notin broken
       THEN FanOut(Append(out, [to |-> SocketOrder[i], msg |-> msg]), conn, origin,
                   msg, i + 1)
       ELSE FanOut(out, conn, origin, msg, i + 1)

\* A fan-out that does not skip the origin
broadcastToAll(out, conn, origin, msg) == FanOut(out, conn, NoSession, msg, 1)

broadcastToOthers(out, conn, origin, msg) == FanOut(out, conn, origin, msg, 1)

\* handleRealtimeUpdate after persistNow, lines 790-796; when the send of the
\* ack throws (line 795), line 796 is not reached
AckAndFanOut(conn, tr) ==
  IF conn[tr.ws] # NoSession /\ tr.ws \in broken THEN <<>>
  ELSE broadcastToOthers(
         SendTo(<<>>, conn, tr.ws, Msg("ack", tr.body.hasId, tr.body.id, tr.rec, 0)),
         conn, tr.ws, Msg("remote-update", FALSE, 0, tr.rec, 0))

Quiet == sent' = <<>> /\ response' = NoResp

\* ------------------------------------------------------------------------
\* DocumentDO: HTTP read
\* ------------------------------------------------------------------------
\* readDocument returns, lines 801-818
ReadReturn(tr, record) ==
  LET status == ReadStatus(record, tr.user)
  IN /\ response' = Resp(tr, status, IF status = 200 THEN record ELSE NoDoc, "")
     /\ sent' = <<>>

\* GET /documents/:id up to the first await, lines 661-662 and 799-800
ReadStart(t, u, docId) ==
  /\ Ready
  /\ turn[t].pc = "idle"
  /\ LET tr == [IdleTurn EXCEPT !.op = "read", !.user = u, !.docId = docId]
     IN IF document # NoDoc
        THEN ReadReturn(tr, document) /\ UNCHANGED turn
        ELSE turn' = [turn EXCEPT ![t] = [tr EXCEPT !.pc = "load"]] /\ Quiet
  /\ UNCHANGED <<document, dirty, persist, connections, storage, putQueue,
                 clock, accepted, lastAccepted, persistedMax>>

\* storage.get returned to the read, lines 897-907 and 801-818
ReadLoaded(t) ==
  /\ Ready
  /\ turn[t].pc = "load"
  /\ turn[t].op = "read"
  /\ document' = Hydrate(storage)
  /\ ReadReturn(turn[t], Hydrate(storage))
  /\ turn' = [turn EXCEPT ![t] = IdleTurn]
  /\ UNCHANGED <<dirty, persist, connections, storage, putQueue,
                 clock, accepted, lastAccepted, persistedMax>>

\* ------------------------------------------------------------------------
\* DocumentDO: HTTP write
\* ------------------------------------------------------------------------
\* writeDocument from the result of ensureDocumentLoaded to the await of
\* storage.put, lines 829-883
WriteCont(t, tr, existing) ==
  LET reject == WriteReject(existing, tr.user, tr.body)
      rec == IF existing = NoDoc
             THEN NewRecord(tr.docId, InitOwner(tr.body, tr.user), tr.body, tr.now)
             ELSE MergeRecord(existing, tr.body, tr.now)
  IN IF reject # 0
     THEN /\ turn' = [turn EXCEPT ![t] = IdleTurn]
          /\ response' = Resp(tr, reject, NoDoc, "")
          /\ sent' = <<>>
          /\ UNCHANGED <<putQueue, accepted, lastAccepted>>
     ELSE /\ turn' = [turn EXCEPT ![t] =
                        [tr EXCEPT !.pc = "put", !.rec = rec, !.now = 0,
                                   !.status = IF existing = NoDoc THEN 201 ELSE 200]]
          /\ putQueue' = Append(putQueue, [by |-> t, rec |-> rec])
          /\ accepted' = Append(accepted, rec.version)
          /\ lastAccepted' = rec
          /\ Quiet

\* POST /documents/:id up to the first await, lines 665-673 and 826-827
WriteStart(t, u, docId, body) ==
  /\ Ready
  /\ turn[t].pc = "idle"
  /\ MayAcceptWrite
  /\ \E n \in Later(clock) :
       /\ clock' = n
       /\ LET tr == [IdleTurn EXCEPT !.op = "write", !.user = u, !.docId = docId,
                                     !.body = body, !.now = n]
          IN IF document # NoDoc
             THEN WriteCont(t, tr, document)
             ELSE /\ turn' = [turn EXCEPT ![t] = [tr EXCEPT !.pc = "load"]]
                  /\ Quiet
                  /\ UNCHANGED <<putQueue, accepted, lastAccepted>>
  /\ UNCHANGED <<document, dirty, persist, connections, storage, persistedMax>>

\* storage.get returned to the write
WriteLoaded(t) ==
  /\ Ready
  /\ turn[t].pc = "load"
  /\ turn[t].op = "write"
  /\ document' = Hydrate(storage)
  /\ WriteCont(t, turn[t], Hydrate(storage))
  /\ UNCHANGED <<dirty, persist, connections, storage, clock, persistedMax>>

\* ------------------------------------------------------------------------
\* DocumentDO: persistence guard
\* ------------------------------------------------------------------------
\* persistNow(force) up to its first await, lines 922-948, when this.document
\* is doc and force or this.dirty holds: wait for the operation in flight, or
\* start one (its body runs up to the await of storage.put) and wait for it
PersistEnter(t, tr, doc, force) ==
  IF persist.stage # "none"
  THEN /\ turn' = [turn EXCEPT ![t] =
                     [tr EXCEPT !.pc = "wait", !.waiter = TRUE, !.force = force]]
       /\ UNCHANGED <<persist, putQueue>>
  ELSE /\ turn' = [turn EXCEPT ![t] =
                     [tr EXCEPT !.pc = "wait", !.waiter = FALSE, !.force = force]]
       /\ persist' = [stage |-> "put", rec |-> NoDoc]
       /\ putQueue' = Append(putQueue, [by |-> "persist", rec |-> doc])

Max(a, b) == IF a > b THEN a ELSE b

\* The oldest storage.put completes.  It resumes writeDocument (lines 857-863
\* and 884-890) or the body of persistNow, which calls syncIndex with
\* this.document as it is now (line 941).
PutDone ==
  /\ Ready
  /\ putQueue # <<>>
  /\ LET h == Head(putQueue)
     IN /\ storage' = h.rec
        /\ persistedMax' = Max(persistedMax, h.rec.version)
        /\ putQueue' = Tail(putQueue)
        /\ IF h.by = "persist"
           THEN /\ persist' = [stage |-> "sync", rec |-> document]
                /\ Quiet
                /\ UNCHANGED <<document, dirty, turn>>
           ELSE /\ document' = h.rec
                /\ dirty' = FALSE
                /\ response' = Resp(turn[h.by], turn[h.by].status, h.rec, "")
                /\ sent' = <<>>
                /\ turn' = [turn EXCEPT ![h.by] = IdleTurn]
                /\ UNCHANGED persist
  /\ UNCHANGED <<connections, clock, accepted, lastAccepted>>

\* The fetch of syncIndex returned (lines 951-961; its response is not read):
\* the body of persistNow ends (lines 942-944) and the promise settles
SyncDone ==
  /\ Ready
  /\ persist.stage = "sync"
  /\ dirty' = DirtyAfterPersist(dirty)
  /\ persist' = NoPersist
  /\ turn' = [t \in Turns |->
                IF turn[t].pc = "wait" THEN [turn[t] EXCEPT !.pc = "resume"]
                ELSE turn[t]]
  /\ Quiet
  /\ UNCHANGED <<document, connections, storage, putQueue, clock,
                 accepted, lastAccepted, persistedMax>>

\* A turn continues after the awaited persistPromise settled: a waiter tests
\* the flag again and retries (lines 931-935); otherwise persistNow returns to
\* handleRealtimeUpdate (lines 790-796) or to webSocketClose
Resume(t) ==
  /\ Delivered
  /\ turn[t].pc = "resume"
  /\ LET tr == turn[t]
     IN IF tr.waiter /\ RetryNeeded(tr.force, dirty)
        THEN /\ PersistEnter(t, tr, document, tr.force)
             /\ sent' = <<>>
        ELSE /\ turn' = [turn EXCEPT ![t] = IdleTurn]
             /\ sent' = IF tr.op = "update" THEN AckAndFanOut(connections, tr)
                        ELSE <<>>
             /\ UNCHANGED <<persist, putQueue>>
  /\ response' = NoResp
  /\ UNCHANGED <<document, dirty, connections, storage, clock, accepted,
                 lastAccepted, persistedMax>>

\* ------------------------------------------------------------------------
\* DocumentDO: realtime
\* ------------------------------------------------------------------------
PendingUpgrades ==
  Cardinality({t \in Turns : turn[t].pc = "load" /\ turn[t].op = "upgrade"})

\* Sockets that are neither registered nor held by a suspended handler
FreeSockets ==
  {s \in Sockets : connections[s] = NoSession /\ \A t \in Turns : turn[t].ws # s}

\* The server end of a new WebSocketPair
FreshSocket ==
  SocketOrder[CHOOSE i \in 1..Len(SocketOrder) :
                /\ SocketOrder[i] \in FreeSockets
                /\ \A j \in 1..(i - 1) : SocketOrder[j] \notin FreeSockets]

\* A handshake that registers the session and sends no snapshot
UpgradeCont_NoSnapshot(tr, record) ==
  LET reject == UpgradeReject(record, tr.user)
      server == FreshSocket
  IN IF reject # 0
     THEN /\ response' = Resp(tr, reject, NoDoc, "")
          /\ sent' = <<>>
          /\ UNCHANGED connections
     ELSE /\ connections' = [connections EXCEPT ![server] = tr.user]
          /\ sent' = <<>>
          /\ response' = Resp(tr, 101, NoDoc, server)

\* handleRealtimeSync after ensureDocumentLoaded, lines 684-712
UpgradeCont(tr, record) ==
  LET reject == UpgradeReject(record, tr.user)
      server == FreshSocket
  IN IF reject # 0
     THEN /\ response' = Resp(tr, reject, NoDoc, "")
          /\ sent' = <<>>
          /\ UNCHANGED connections
     ELSE /\ connections' = [connections EXCEPT ![server] = tr.user]
          /\ sent' = <<[to |-> server, msg |-> Msg("snapshot", FALSE, 0, record, 0)]>>
          /\ response' = Resp(tr, 101, NoDoc, server)

\* GET /documents/:id/sync with Upgrade: websocket, lines 649-650 and 682-683
UpgradeStart(t, u, docId) ==
  /\ Ready
  /\ turn[t].pc = "idle"
  /\ Cardinality(Registered) + PendingUpgrades + 1 < Cardinality(Sockets)
  /\ LET tr == [IdleTurn EXCEPT !.op = "upgrade", !.user = u, !.docId = docId]
     IN IF document # NoDoc
        THEN UpgradeCont(tr, document) /\ UNCHANGED turn
        ELSE /\ turn' = [turn EXCEPT ![t] = [tr EXCEPT !.pc = "load"]]
             /\ Quiet
             /\ UNCHANGED connections
  /\ UNCHANGED <<document, dirty, persist, storage, putQueue, clock, accepted,
                 lastAccepted, persistedMax>>

\* storage.get returned to the upgrade
UpgradeLoaded(t) ==
  /\ Ready
  /\ turn[t].pc = "load"
  /\ turn[t].op = "upgrade"
  /\ document' = Hydrate(storage)
  /\ UpgradeCont(turn[t], Hydrate(storage))
  /\ turn' = [turn EXCEPT ![t] = IdleTurn]
  /\ UNCHANGED <<dirty, persist, storage, putQueue, clock, accepted, lastAccepted,
                 persistedMax>>

\* handleRealtimeUpdate up to the await of persistNow, lines 764-788
UpdateCont(t, tr, record) ==
  IF record = NoDoc
  THEN /\ sent' = SendTo(<<>>, connections, tr.ws, Msg("error", FALSE, 0, NoDoc, 0))
       /\ UNCHANGED <<document, dirty, persist, putQueue, turn, clock, accepted,
                      lastAccepted>>
  ELSE IF record.ownerId # tr.user
  THEN /\ sent' = SendTo(<<>>, connections, tr.ws, Msg("close-4403", FALSE, 0, NoDoc, 0))
       /\ UNCHANGED <<document, dirty, persist, putQueue, turn, clock, accepted,
                      lastAccepted>>
  ELSE \E n \in Later(clock) :
         LET nextRecord == MergeRecord(record, tr.body, n)
         IN /\ clock' = n
            /\ document' = nextRecord
            /\ dirty' = TRUE
            /\ accepted' = Append(accepted, nextRecord.version)
            /\ lastAccepted' = nextRecord
            /\ PersistEnter(t, [tr EXCEPT !.rec = nextRecord], nextRecord, FALSE)
            /\ sent' = <<>>

\* webSocketMessage, lines 715-746
Message(t, ws, kind, payload) ==
  /\ Ready
  /\ turn[t].pc = "idle"
  /\ connections[ws] # NoSession
  /\ kind = "update" => MayAcceptWrite
  \* a message other than an update is noted together with its reply
  /\ response' = IF kind = "update" THEN NoResp
                 ELSE Resp([IdleTurn EXCEPT !.op = kind, !.user = connections[ws]],
                           0, NoDoc, ws)
  /\ LET tr == [IdleTurn EXCEPT !.op = kind, !.user = connections[ws], !.ws = ws,
                                !.body = payload]
     IN CASE kind = "malformed" ->
               /\ sent' = SendTo(<<>>, connections, ws, Msg("error", FALSE, 0, NoDoc, 0))
               /\ UNCHANGED <<document, dirty, persist, putQueue, turn, clock,
                              accepted, lastAccepted>>
          [] kind = "ping" ->
               \E n \in Later(clock) :
                 /\ clock' = n
                 /\ sent' = SendTo(<<>>, connections, ws, Msg("pong", FALSE, 0, NoDoc, n))
                 /\ UNCHANGED <<document, dirty, persist, putQueue, turn, accepted,
                                lastAccepted>>
          [] kind = "update" -> UpdateCont(t, tr, document)
          [] OTHER ->
               /\ sent' = SendTo(<<>>, connections, ws, Msg("error", FALSE, 0, NoDoc, 0))
               /\ UNCHANGED <<document, dirty, persist, putQueue, turn, clock,
                              accepted, lastAccepted>>
  /\ UNCHANGED <<connections, storage, persistedMax>>

\* webSocketClose, lines 748-753
Close(t, ws) ==
  /\ Ready
  /\ turn[t].pc = "idle"
  /\ connections[ws] # NoSession
  /\ connections' = [connections EXCEPT ![ws] = NoSession]
  /\ IF Registered = {ws} /\ document # NoDoc
     THEN PersistEnter(t, [IdleTurn EXCEPT !.op = "close", !.rec = document],
                       document, TRUE)
     ELSE UNCHANGED <<turn, persist, putQueue>>
  /\ Quiet
  /\ UNCHANGED <<document, dirty, storage, clock, accepted, lastAccepted,
                 persistedMax>>

\* The runtime hands the messages and the response of the last step over
Deliver ==
  /\ ~Delivered
  /\ Quiet
  /\ UNCHANGED <<document, dirty, persist, connections, storage, putQueue, turn,
                 clock, accepted, lastAccepted, persistedMax>>

\* ------------------------------------------------------------------------
\* Specification
\* ------------------------------------------------------------------------
\* Handler invocations are interchangeable: a new one takes the first idle turn
FirstIdle(t) ==
  \E i \in 1..Len(TurnOrder) :
    /\ TurnOrder[i] = t
    /\ turn[t].pc = "idle"
    /\ \A j \in 1..(i - 1) : turn[TurnOrder[j]].pc # "idle"

Next ==
  \/ \E t \in Turns, u \in Users : \E docId \in DocIds : FirstIdle(t) /\ ReadStart(t, u, docId) /\ UNCHANGED <<indexVars, routerVars, broken, client, channel>>
  \/ \E t \in Turns : ReadLoaded(t) /\ UNCHANGED <<indexVars, routerVars, broken, client, channel>>
  \/ \E t \in Turns, u \in Users, body \in WriteBodies :
       \E docId \in DocIds : FirstIdle(t) /\ WriteStart(t, u, docId, body) /\ UNCHANGED <<indexVars, routerVars, broken, client, channel>>
  \/ \E t \in Turns : WriteLoaded(t) /\ UNCHANGED <<indexVars, routerVars, broken, client, channel>>
  \/ \E t \in Turns, u \in Users : \E docId \in DocIds : FirstIdle(t) /\ UpgradeStart(t, u, docId) /\ UNCHANGED <<indexVars, routerVars, broken, client, channel>>
  \/ \E t \in Turns : UpgradeLoaded(t) /\ UNCHANGED <<indexVars, routerVars, broken, client, channel>>
  \/ \E t \in Turns, ws \in Sockets, kind \in MessageKinds :
       \E payload \in (IF kind = "update" THEN UpdatePayloads ELSE {NoBody}) :
         FirstIdle(t) /\ Message(t, ws, kind, payload) /\ UNCHANGED <<indexVars, routerVars, broken, client, channel>>
  \/ \E t \in Turns, ws \in Sockets : FirstIdle(t) /\ Close(t, ws) /\ UNCHANGED <<indexVars, routerVars, broken, client, channel>>
  \/ PutDone /\ UNCHANGED <<indexVars, routerVars, broken, client, channel>>
  \/ SyncDone /\ UNCHANGED <<indexVars, routerVars, broken, client, channel>>
  \/ \E t \in Turns : Resume(t) /\ UNCHANGED <<indexVars, routerVars, broken, client, channel>>
  \/ Deliver /\ UNCHANGED <<indexVars, routerVars, broken, client, channel>>

Spec == Init /\ [][Next]_vars

\* The actor wakes up with a document that was created and stored earlier, and
\* the document is edited over its sockets only
StoredAtWake ==
  NewRecord("d1", "u1",
            MkBody([title |-> "T0", content |-> Omitted, hasTags |-> FALSE,
                    tags |-> <<>>], TRUE, Omitted, FALSE, 0), 0)

InitRT ==
  /\ InitIndex
  /\ InitRouter({DefaultEnv})
  /\ document = NoDoc
  /\ dirty = FALSE
  /\ persist = NoPersist
  /\ connections = [s \in Sockets |-> NoSession]
  /\ storage = StoredAtWake
  /\ putQueue = <<>>
  /\ turn = [t \in Turns |-> IdleTurn]
  /\ sent = <<>>
  /\ response = NoResp
  /\ clock = 0
  /\ accepted = <<1>>
  /\ lastAccepted = StoredAtWake
  /\ persistedMax = 1
  /\ broken = {}
  /\ InitClient

NextRT ==
  \/ \E t \in Turns, u \in Users : \E docId \in DocIds : FirstIdle(t) /\ ReadStart(t, u, docId) /\ UNCHANGED <<indexVars, routerVars, broken, client, channel>>
  \/ \E t \in Turns : ReadLoaded(t) /\ UNCHANGED <<indexVars, routerVars, broken, client, channel>>
  \/ \E t \in Turns, u \in Users : \E docId \in DocIds : FirstIdle(t) /\ UpgradeStart(t, u, docId) /\ UNCHANGED <<indexVars, routerVars, broken, client, channel>>
  \/ \E t \in Turns : UpgradeLoaded(t) /\ UNCHANGED <<indexVars, routerVars, broken, client, channel>>
  \/ \E t \in Turns, ws \in Sockets, kind \in MessageKinds :
       \E payload \in (IF kind = "update" THEN UpdatePayloads ELSE {NoBody}) :
         FirstIdle(t) /\ Message(t, ws, kind, payload) /\ UNCHANGED <<indexVars, routerVars, broken, client, channel>>
  \/ \E t \in Turns, ws \in Sockets : FirstIdle(t) /\ Close(t, ws) /\ UNCHANGED <<indexVars, routerVars, broken, client, channel>>
  \/ PutDone /\ UNCHANGED <<indexVars, routerVars, broken, client, channel>>
  \/ SyncDone /\ UNCHANGED <<indexVars, routerVars, broken, client, channel>>
  \/ \E t \in Turns : Resume(t) /\ UNCHANGED <<indexVars, routerVars, broken, client, channel>>
  \/ Deliver /\ UNCHANGED <<indexVars, routerVars, broken, client, channel>>

SpecRT == InitRT /\ [][NextRT]_vars

\* Nothing is in flight: the callers of SpecSeq send a request or a message
\* only after the one before has been answered and persistence has settled
NothingInFlight ==
  /\ putQueue = <<>>
  /\ persist = NoPersist
  /\ \A t \in Turns : turn[t].pc = "idle"

NextSeq ==
  \/ \E t \in Turns, u \in Users : \E docId \in DocIds :
       NothingInFlight /\ FirstIdle(t) /\ ReadStart(t, u, docId) /\ UNCHANGED <<indexVars, routerVars, broken, client, channel>>
  \/ \E t \in Turns : ReadLoaded(t) /\ UNCHANGED <<indexVars, routerVars, broken, client, channel>>
  \/ \E t \in Turns, u \in Users, body \in WriteBodies :
       \E docId \in DocIds :
         NothingInFlight /\ FirstIdle(t) /\ WriteStart(t, u, docId, body) /\ UNCHANGED <<indexVars, routerVars, broken, client, channel>>
  \/ \E t \in Turns : WriteLoaded(t) /\ UNCHANGED <<indexVars, routerVars, broken, client, channel>>
  \/ \E t \in Turns, u \in Users : \E docId \in DocIds :
       NothingInFlight /\ FirstIdle(t) /\ UpgradeStart(t, u, docId) /\ UNCHANGED <<indexVars, routerVars, broken, client, channel>>
  \/ \E t \in Turns : UpgradeLoaded(t) /\ UNCHANGED <<indexVars, routerVars, broken, client, channel>>
  \/ \E t \in Turns, ws \in Sockets, kind \in MessageKinds :
       \E payload \in (IF kind = "update" THEN UpdatePayloads ELSE {NoBody}) :
         NothingInFlight /\ FirstIdle(t) /\ Message(t, ws, kind, payload) /\ UNCHANGED <<indexVars, routerVars, broken, client, channel>>
  \/ \E t \in Turns, ws \in Sockets :
       NothingInFlight /\ FirstIdle(t) /\ Close(t, ws) /\ UNCHANGED <<indexVars, routerVars, broken, client, channel>>
  \/ PutDone /\ UNCHANGED <<indexVars, routerVars, broken, client, channel>>
  \/ SyncDone /\ UNCHANGED <<indexVars, routerVars, broken, client, channel>>
  \/ \E t \in Turns : Resume(t) /\ UNCHANGED <<indexVars, routerVars, broken, client, channel>>
  \/ Deliver /\ UNCHANGED <<indexVars, routerVars, broken, client, channel>>

SpecSeq == Init /\ [][NextSeq]_vars

\* n times the character c
Rep(c, n) == [k \in 1..n |-> c]

\* A tag that is longer than MAX_TAG_LENGTH after collapsing and trimming and
\* has a blank as its character number MAX_TAG_LENGTH
CutAtBlank == Rep("a", MAX_TAG_LENGTH - 1) \o <<" ", " ", "b">>

\* A tag that is longer than MAX_TAG_LENGTH, without blanks
TooLong == Rep("b", MAX_TAG_LENGTH + 2)

\* More distinct tags than MAX_TAGS_PER_DOCUMENT, after two that differ in
\* case only
TooMany ==
  << <<"A">>, <<"a">> >> \o [k \in 1..(MAX_TAGS_PER_DOCUMENT + 1) |-> Rep("c", k)]

\* The tags arrays that clients send
TagInputs ==
  { TagsIn,
    << <<" ", "\t">>, <<"B", " ", " ", "a">>, <<"b", " ", "A">> >>,
    << CutAtBlank >>,
    << TooLong, <<"\t", "c", " ">>, TooLong >>,
    TooMany }

\* Bodies of POST /documents/:id that carry tags: creations and updates
TagBodies ==
  { MkBody([title |-> "T1", content |-> Omitted, hasTags |-> TRUE, tags |-> v],
           init, Omitted, FALSE, 0) : v \in TagInputs, init \in BOOLEAN }

\* The owner writes tags, one request after another
NextTags ==
  \/ \E t \in Turns, body \in TagBodies : \E docId \in DocIds :
       /\ NothingInFlight
       /\ FirstIdle(t)
       /\ WriteStart(t, "u1", docId, body)
       /\ UNCHANGED <<indexVars, routerVars, broken, client, channel>>
  \/ \E t \in Turns : WriteLoaded(t) /\ UNCHANGED <<indexVars, routerVars, broken, client, channel>>
  \/ PutDone /\ UNCHANGED <<indexVars, routerVars, broken, client, channel>>
  \/ Deliver /\ UNCHANGED <<indexVars, routerVars, broken, client, channel>>

SpecTags == Init /\ [][NextTags]_vars

\* The fetch of syncIndex throws (lines 951-961 have no catch): the body of
\* persistNow skips line 942, its finally clears persistPromise (943-945) and
\* the promise rejects, so every handler awaiting it (lines 930, 948) throws
\* out of persistNow and out of handleRealtimeUpdate or webSocketClose
SyncFail ==
  /\ Ready
  /\ persist.stage = "sync"
  /\ persist' = NoPersist
  /\ turn' = [t \in Turns |-> IF turn[t].pc = "wait" THEN IdleTurn ELSE turn[t]]
  /\ Quiet
  /\ UNCHANGED <<document, dirty, connections, storage, putQueue, clock,
                 accepted, lastAccepted, persistedMax>>

\* The stored document is edited over its sockets, one request or message
\* after another, and the push to the Index Actor may fail
NextFault ==
  \/ \E t \in Turns, u \in Users : \E docId \in DocIds :
       NothingInFlight /\ FirstIdle(t) /\ ReadStart(t, u, docId) /\ UNCHANGED <<indexVars, routerVars, broken, client, channel>>
  \/ \E t \in Turns : ReadLoaded(t) /\ UNCHANGED <<indexVars, routerVars, broken, client, channel>>
  \/ \E t \in Turns, u \in Users : \E docId \in DocIds :
       NothingInFlight /\ FirstIdle(t) /\ UpgradeStart(t, u, docId) /\ UNCHANGED <<indexVars, routerVars, broken, client, channel>>
  \/ \E t \in Turns : UpgradeLoaded(t) /\ UNCHANGED <<indexVars, routerVars, broken, client, channel>>
  \/ \E t \in Turns, ws \in Sockets, kind \in MessageKinds :
       \E payload \in (IF kind = "update" THEN UpdatePayloads ELSE {NoBody}) :
         NothingInFlight /\ FirstIdle(t) /\ Message(t, ws, kind, payload) /\ UNCHANGED <<indexVars, routerVars, broken, client, channel>>
  \/ \E t \in Turns, ws \in Sockets :
       NothingInFlight /\ FirstIdle(t) /\ Close(t, ws) /\ UNCHANGED <<indexVars, routerVars, broken, client, channel>>
  \/ PutDone /\ UNCHANGED <<indexVars, routerVars, broken, client, channel>>
  \/ SyncDone /\ UNCHANGED <<indexVars, routerVars, broken, client, channel>>
  \/ SyncFail /\ UNCHANGED <<indexVars, routerVars, broken, client, channel>>
  \/ \E t \in Turns : Resume(t) /\ UNCHANGED <<indexVars, routerVars, broken, client, channel>>
  \/ Deliver /\ UNCHANGED <<indexVars, routerVars, broken, client, channel>>

SpecFault == InitRT /\ [][NextFault]_vars

\* The oldest storage.put rejects.  writeDocument throws at line 856 or 883,
\* before it assigns this.document, and fetch rejects: its caller gets an
\* error, noted as status 500.  In persistNow the body throws at line 940, its
\* finally clears persistPromise (943-945) and the promise rejects, so every
\* handler awaiting it (lines 931, 948) throws out of handleRealtimeUpdate or
\* webSocketClose, which catch nothing.
PutFail ==
  /\ Ready
  /\ putQueue # <<>>
  /\ putQueue' = Tail(putQueue)
  /\ IF Head(putQueue).by = "persist"
     THEN /\ persist' = NoPersist
          /\ turn' = [t \in Turns |-> IF turn[t].pc = "wait" THEN IdleTurn ELSE turn[t]]
          /\ Quiet
     ELSE /\ turn' = [turn EXCEPT ![Head(putQueue).by] = IdleTurn]
          /\ response' = Resp(turn[Head(putQueue).by], 500, NoDoc, "")
          /\ sent' = <<>>
          /\ UNCHANGED persist
  /\ UNCHANGED <<document, dirty, connections, storage, clock, accepted,
                 lastAccepted, persistedMax>>

\* The stored document is read and written over HTTP and over its sockets,
\* one request or message after another, and a storage.put may fail
NextPutFault ==
  \/ \E t \in Turns, u \in Users : \E docId \in DocIds :
       NothingInFlight /\ FirstIdle(t) /\ ReadStart(t, u, docId) /\ UNCHANGED <<indexVars, routerVars, broken, client, channel>>
  \/ \E t \in Turns : ReadLoaded(t) /\ UNCHANGED <<indexVars, routerVars, broken, client, channel>>
  \/ \E t \in Turns, u \in Users, body \in WriteBodies : \E docId \in DocIds :
       NothingInFlight /\ FirstIdle(t) /\ WriteStart(t, u, docId, body) /\ UNCHANGED <<indexVars, routerVars, broken, client, channel>>
  \/ \E t \in Turns : WriteLoaded(t) /\ UNCHANGED <<indexVars, routerVars, broken, client, channel>>
  \/ \E t \in Turns, u \in Users : \E docId \in DocIds :
       NothingInFlight /\ FirstIdle(t) /\ UpgradeStart(t, u, docId) /\ UNCHANGED <<indexVars, routerVars, broken, client, channel>>
  \/ \E t \in Turns : UpgradeLoaded(t) /\ UNCHANGED <<indexVars, routerVars, broken, client, channel>>
  \/ \E t \in Turns, ws \in Sockets, kind \in MessageKinds :
       \E payload \in (IF kind = "update" THEN UpdatePayloads ELSE {NoBody}) :
         NothingInFlight /\ FirstIdle(t) /\ Message(t, ws, kind, payload) /\ UNCHANGED <<indexVars, routerVars, broken, client, channel>>
  \/ \E t \in Turns, ws \in Sockets :
       NothingInFlight /\ FirstIdle(t) /\ Close(t, ws) /\ UNCHANGED <<indexVars, routerVars, broken, client, channel>>
  \/ PutDone /\ UNCHANGED <<indexVars, routerVars, broken, client, channel>>
  \/ PutFail /\ UNCHANGED <<indexVars, routerVars, broken, client, channel>>
  \/ SyncDone /\ UNCHANGED <<indexVars, routerVars, broken, client, channel>>
  \/ \E t \in Turns : Resume(t) /\ UNCHANGED <<indexVars, routerVars, broken, client, channel>>
  \/ Deliver /\ UNCHANGED <<indexVars, routerVars, broken, client, channel>>

SpecPutFault == InitRT /\ [][NextPutFault]_vars

\* The sets of sockets whose peer has gone without a close event so far
BrokenSets == {{}} \cup {{s} : s \in Sockets}

\* The stored document is loaded and its owner has three sessions, one of
\* which may have lost its peer
InitFanOut ==
  /\ InitIndex
  /\ InitRouter({DefaultEnv})
  /\ document = StoredAtWake
  /\ dirty = FALSE
  /\ persist = NoPersist
  /\ connections = [s \in Sockets |-> StoredAtWake.ownerId]
  /\ storage = StoredAtWake
  /\ putQueue = <<>>
  /\ turn = [t \in Turns |-> IdleTurn]
  /\ sent = <<>>
  /\ response = NoResp
  /\ clock = 0
  /\ accepted = <<1>>
  /\ lastAccepted = StoredAtWake
  /\ persistedMax = 1
  /\ broken \in BrokenSets
  /\ InitClient

\* The sessions send messages and close while sends to one of them throw
NextFanOut ==
  \/ \E t \in Turns, ws \in Sockets, kind \in MessageKinds :
       \E payload \in (IF kind = "update" THEN UpdatePayloads ELSE {NoBody}) :
         FirstIdle(t) /\ Message(t, ws, kind, payload) /\ UNCHANGED <<indexVars, routerVars, broken, client, channel>>
  \/ \E t \in Turns, ws \in Sockets : FirstIdle(t) /\ Close(t, ws) /\ UNCHANGED <<indexVars, routerVars, broken, client, channel>>
  \/ PutDone /\ UNCHANGED <<indexVars, routerVars, broken, client, channel>>
  \/ SyncDone /\ UNCHANGED <<indexVars, routerVars, broken, client, channel>>
  \/ \E t \in Turns : Resume(t) /\ UNCHANGED <<indexVars, routerVars, broken, client, channel>>
  \/ Deliver /\ UNCHANGED <<indexVars, routerVars, broken, client, channel>>

SpecFanOut == InitFanOut /\ [][NextFanOut]_vars

\* ------------------------------------------------------------------------
\* UserIndexDO
\* ------------------------------------------------------------------------
docVars ==
  <<document, dirty, persist, connections, storage, putQueue, turn, sent,
    response, clock, accepted, lastAccepted, persistedMax>>

\* The Index Actor is ready for the next event
IndexReady == indexResponse = NoIndexResp /\ Delivered

\* The handler of turn i returns a response
IndexReturn(i, tr, status, doc, entries) ==
  /\ indexTurn' = [indexTurn EXCEPT ![i] = IdleIndexTurn]
  /\ indexResponse' = IndexResp(tr, status, doc, entries)

\* The handler of turn i goes on to its next await
IndexGoto(i, tr, pc) ==
  /\ indexTurn' = [indexTurn EXCEPT ![i] = [tr EXCEPT !.pc = pc]]
  /\ indexResponse' = NoIndexResp

\* syncIndexFromDocument before its await, lines 594-600: the pushed record
\* has no ownerId or one that is not the caller
SyncForbidden(rec, userId) == rec.ownerId = "" \/ rec.ownerId # userId

\* fetch after ensureUserId returned null, lines 418-458, up to the first
\* await of listDocs, createDoc, updateDoc or syncIndexFromDocument
IndexRoute(i, tr) ==
  CASE tr.op = "list" -> IndexGoto(i, tr, "listGet")
    [] tr.op \in {"create", "update"} -> IndexGoto(i, tr, "fwd")
    [] OTHER ->
         IF SyncForbidden(tr.rec, tr.user)
         THEN IndexReturn(i, tr, 403, NoDoc, EmptyIndex)
         ELSE IndexGoto(i, tr, "upGet")

\* ensureUserId with a known id, lines 466-473 and 476-484
IndexCheckUser(i, tr, known) ==
  IF known = tr.user THEN IndexRoute(i, tr)
  ELSE IndexReturn(i, tr, 403, NoDoc, EmptyIndex)

\* fetch up to the first await, lines 405-416 and 465-475
IndexStart(i, u, op, docId, body, rec, origin) ==
  /\ IndexReady
  /\ indexTurn[i].pc = "idle"
  /\ LET tr == [IdleIndexTurn EXCEPT !.op = op, !.user = u, !.docId = docId,
                                     !.body = body, !.rec = rec, !.origin = origin]
     IN IF initializedUserId # NoUser
        THEN IndexCheckUser(i, tr, initializedUserId)
        ELSE IndexGoto(i, tr, "uidGet")
  /\ UNCHANGED <<initializedUserId, indexStore, indexPuts>>

\* storage.get('userId') returned to ensureUserId, lines 475-487
IndexUserLoaded(i) ==
  /\ IndexReady
  /\ indexTurn[i].pc = "uidGet"
  /\ LET stored == indexStore.userId
         tr == indexTurn[i]
     IN IF stored # NoUser
        THEN /\ initializedUserId' = stored
             /\ IndexCheckUser(i, tr, stored)
             /\ UNCHANGED indexPuts
        ELSE /\ IndexGoto(i, tr, "uidPut")
             /\ indexPuts' = Append(indexPuts, [by |-> i, key |-> "userId",
                                                user |-> tr.user,
                                                entries |-> EmptyIndex,
                                                keys |-> <<>>])
             /\ UNCHANGED initializedUserId
  /\ UNCHANGED indexStore

\* storage.get('index') returned to listDocs, lines 492-508
IndexListLoaded(i) ==
  /\ IndexReady
  /\ indexTurn[i].pc = "listGet"
  /\ indexTurn' = [indexTurn EXCEPT ![i] = IdleIndexTurn]
  /\ indexResponse' =
       [IndexResp(indexTurn[i], 200, NoDoc, indexStore.index)
          EXCEPT !.documents = listDocs(indexStore.index, indexStore.keys)]
  /\ UNCHANGED <<initializedUserId, indexStore, indexPuts>>

\* storage.get('index') returned to upsertIndex, lines 575-587
IndexUpsertLoaded(i) ==
  /\ IndexReady
  /\ indexTurn[i].pc = "upGet"
  /\ LET tr == indexTurn[i]
         entries == Upsert(indexStore.index, tr.rec)
     IN /\ IndexGoto(i, [tr EXCEPT !.entries = entries], "upPut")
        /\ indexPuts' = Append(indexPuts, [by |-> i, key |-> "index",
                                           user |-> NoUser, entries |-> entries,
                                           keys |-> InsertKey(indexStore.keys,
                                                              tr.rec.docId)])
  /\ UNCHANGED <<initializedUserId, indexStore>>

\* The status the handler returns once upsertIndex is done: createDoc 540-543,
\* updateDoc 568-571, syncIndexFromDocument 604-607
UpsertStatus(op) == IF op = "create" THEN 201 ELSE 200

\* The oldest storage.put of the Index Actor completes and its handler goes
\* on: ensureUserId pins the id (lines 486-488), or upsertIndex returns
IndexPutDone ==
  /\ IndexReady
  /\ indexPuts # <<>>
  /\ LET h == Head(indexPuts)
         tr == indexTurn[h.by]
     IN /\ indexPuts' = Tail(indexPuts)
        /\ IF h.key = "userId"
           THEN /\ indexStore' = [indexStore EXCEPT !.userId = h.user]
                /\ initializedUserId' = h.user
                /\ IndexRoute(h.by, tr)
           ELSE /\ indexStore' = [indexStore EXCEPT !.index = h.entries,
                                                    !.keys = h.keys]
                /\ IndexReturn(h.by, tr, UpsertStatus(tr.op),
                               IF tr.op = "sync" THEN NoDoc ELSE tr.rec, EmptyIndex)
                /\ UNCHANGED initializedUserId

\* The response of the last step of the Index Actor is handed over
IndexDeliver ==
  /\ indexResponse # NoIndexResp
  /\ indexResponse' = NoIndexResp
  /\ UNCHANGED <<initializedUserId, indexStore, indexPuts, indexTurn>>

\* ------------------------------------------------------------------------
\* The Index Actor of user u1 together with the Document Actor of d1
\* ------------------------------------------------------------------------
\* The user whose name addresses the Index Actor (idFromName(userId), lines
\* 313, 330, 369 and 953)
IndexOwner == "u1"

\* A user with an Index Actor of their own, which may create d1 as theirs
OtherUser == "u2"

\* The body that createDoc sends to the Document Actor, lines 513-531
CreateBody(body, userId) ==
  MkBody([title |-> IF body.title = Omitted THEN "" ELSE body.title,
          content |-> IF body.content = Omitted THEN "" ELSE body.content,
          hasTags |-> TRUE,
          tags |-> ensureDocumentTags(body.hasTags, body.tags)],
         TRUE, userId, FALSE, 0)

\* The record of the Document Actor: the one in memory, or the stored one when
\* none is loaded
ActorRecord == IF document # NoDoc THEN document ELSE storage

\* Nothing has addressed document d1 yet: crypto.randomUUID() (line 512) may
\* return its id
DocUnused ==
  /\ document = NoDoc
  /\ storage = NoDoc
  /\ putQueue = <<>>
  /\ \A t \in Turns : turn[t].pc = "idle"
  /\ \A i \in IndexTurns : indexTurn[i].op \notin {"create", "update"}

\* No createDoc is under way whose caller has yet to learn the id: a client
\* names in an update (line 361) or in a socket URL an id that it was given
IdKnown == \A i \in IndexTurns : indexTurn[i].op # "create"

\* The request of createDoc or updateDoc reaches the Document Actor, lines
\* 519-531 and 551-559
IndexForward(i, t) ==
  /\ IndexReady
  /\ indexTurn[i].pc = "fwd"
  /\ LET tr == indexTurn[i]
         docId == IF tr.op = "create" THEN "d1" ELSE tr.docId
         body == IF tr.op = "create" THEN CreateBody(tr.body, tr.user) ELSE tr.body
     IN /\ WriteStart(t, tr.user, docId, body)
        /\ IndexGoto(i, [tr EXCEPT !.docId = docId, !.body = body], "fwdWait")
  /\ UNCHANGED <<initializedUserId, indexStore, indexPuts>>

\* The handler of the Index Actor that awaits the response in variable response
Awaiting(i) ==
  /\ indexTurn[i].pc = "fwdWait"
  /\ response.op = "write"
  /\ indexTurn[i].user = response.user
  /\ indexTurn[i].docId = response.docId
  /\ indexTurn[i].body = response.body

FirstAwaiting ==
  IndexTurnOrder[CHOOSE k \in 1..Len(IndexTurnOrder) :
                   /\ Awaiting(IndexTurnOrder[k])
                   /\ \A j \in 1..(k - 1) : ~Awaiting(IndexTurnOrder[j])]

DeliverToIndex_RepliesFirst ==
  /\ indexResponse = NoIndexResp
  /\ Deliver
  /\ IF \E i \in IndexTurns : Awaiting(i)
     THEN LET i == FirstAwaiting
              tr == indexTurn[i]
          IN /\ IF response.status \in {200, 201}
                THEN IndexReturn(i, tr, UpsertStatus(tr.op), response.document,
                                 EmptyIndex)
                ELSE IndexReturn(i, tr, response.status, response.document, EmptyIndex)
             /\ UNCHANGED <<initializedUserId, indexStore, indexPuts>>
     ELSE UNCHANGED indexVars

\* The response of the Document Actor reaches createDoc or updateDoc: an error
\* is returned as it is (lines 533-535, 561-563), otherwise upsertIndex is
\* called with the returned record (537-538, 565-566)
DeliverToIndex ==
  /\ indexResponse = NoIndexResp
  /\ Deliver
  /\ IF \E i \in IndexTurns : Awaiting(i)
     THEN LET i == FirstAwaiting
              tr == indexTurn[i]
          IN /\ IF response.status \in {200, 201}
                THEN IndexGoto(i, [tr EXCEPT !.rec = response.document], "upGet")
                ELSE IndexReturn(i, tr, response.status, response.document, EmptyIndex)
             /\ UNCHANGED <<initializedUserId, indexStore, indexPuts>>
     ELSE UNCHANGED indexVars

\* The push of syncIndex is in flight to this Index Actor and no handler has
\* taken it yet
PushInFlight ==
  /\ persist.stage = "sync"
  /\ persist.rec.ownerId = IndexOwner
  /\ \A i \in IndexTurns : indexTurn[i].origin # "doc"

\* A step of the Index Actor whose answer to the push never reaches the
\* Document Actor
WithPushReply_Unanswered(A) ==
  /\ A
  /\ UNCHANGED docVars
  /\ UNCHANGED <<routerVars, broken, client, channel>>

\* A step of the Index Actor, and with it the Document Actor's persistNow
\* going on when the step answered its push (the response is not read, lines
\* 954-961)
WithPushReply(A) ==
  /\ A
  /\ IF indexResponse'.origin = "doc" THEN SyncDone ELSE UNCHANGED docVars
  /\ UNCHANGED <<routerVars, broken, client, channel>>

forwardDoResponse_BadGateway(resp) ==
  [status |-> IF resp.status \in {200, 201} THEN resp.status ELSE 502,
   document |-> IF resp.status \in {200, 201} THEN resp.document ELSE NoDoc,
   cors |-> TRUE]

\* The Router's response to the client, lines 383-389: the status and the body
\* of the Index Actor's response under the CORS headers
forwardDoResponse(resp) ==
  [status |-> resp.status, document |-> resp.document, cors |-> TRUE]

\* Writes that reach the Index Actor from the Router (lines 327-381): the
\* owner creates and updates
RoutedRequests ==
  { [user |-> IndexOwner, op |-> "create", docId |-> "",
     body |-> MkBody([title |-> "T1", content |-> Omitted, hasTags |-> FALSE,
                      tags |-> <<>>], FALSE, Omitted, FALSE, 0), rec |-> NoDoc],
    [user |-> IndexOwner, op |-> "update", docId |-> "d1",
     body |-> MkBody([title |-> Omitted, content |-> "C1", hasTags |-> TRUE,
                      tags |-> TagsIn], FALSE, Omitted, FALSE, 0), rec |-> NoDoc] }

\* A record of document d2 as another Document Actor would push it
OtherRecord(ownerId, version) ==
  [docId |-> "d2", ownerId |-> ownerId, title |-> "T2", content |-> "",
   tags |-> <<>>, createdAt |-> 0, updatedAt |-> 0, version |-> version]

\* Lists, requests that bear another user's id, and pushes of records of d2
\* (older and newer, of this owner, of another owner and of none)
OtherRequests ==
  { [user |-> IndexOwner, op |-> "list", docId |-> "", body |-> NoBody, rec |-> NoDoc],
    [user |-> "u2", op |-> "list", docId |-> "", body |-> NoBody, rec |-> NoDoc],
    [user |-> "u2", op |-> "sync", docId |-> "", body |-> NoBody,
     rec |-> OtherRecord("u2", 1)],
    [user |-> IndexOwner, op |-> "sync", docId |-> "", body |-> NoBody,
     rec |-> OtherRecord("u2", 1)],
    [user |-> IndexOwner, op |-> "sync", docId |-> "", body |-> NoBody,
     rec |-> OtherRecord("", 1)],
    [user |-> IndexOwner, op |-> "sync", docId |-> "", body |-> NoBody,
     rec |-> OtherRecord(IndexOwner, 1)],
    [user |-> IndexOwner, op |-> "sync", docId |-> "", body |-> NoBody,
     rec |-> OtherRecord(IndexOwner, 2)] }

FirstIdleIndex(i) ==
  \E k \in 1..Len(IndexTurnOrder) :
    /\ IndexTurnOrder[k] = i
    /\ indexTurn[i].pc = "idle"
    /\ \A j \in 1..(k - 1) : indexTurn[IndexTurnOrder[j]].pc # "idle"

\* The Index Actor on its own: lists and pushes, no Document Actor
NextIndexAlone ==
  \/ \E i \in IndexTurns, r \in OtherRequests :
       /\ FirstIdleIndex(i)
       /\ IndexStart(i, r.user, r.op, r.docId, r.body, r.rec, "env")
       /\ UNCHANGED <<docVars, routerVars, broken, client, channel>>
  \/ \E i \in IndexTurns : IndexUserLoaded(i) /\ UNCHANGED <<docVars, routerVars, broken, client, channel>>
  \/ \E i \in IndexTurns : IndexListLoaded(i) /\ UNCHANGED <<docVars, routerVars, broken, client, channel>>
  \/ \E i \in IndexTurns : IndexUpsertLoaded(i) /\ UNCHANGED <<docVars, routerVars, broken, client, channel>>
  \/ IndexPutDone /\ UNCHANGED <<docVars, routerVars, broken, client, channel>>
  \/ IndexDeliver /\ UNCHANGED <<docVars, routerVars, broken, client, channel>>

SpecIndexAlone == Init /\ [][NextIndexAlone]_vars

\* A record of document d as its Document Actor pushes it after a write at
\* time ts
PushedRecord(d, ts) ==
  [docId |-> d, ownerId |-> IndexOwner, title |-> "T", content |-> "",
   tags |-> <<>>, createdAt |-> 0, updatedAt |-> ts, version |-> 1 + ts]

\* The owner's lists, and pushes of records of two documents written at
\* either time
ListRequests ==
  { [user |-> IndexOwner, op |-> "list", docId |-> "", body |-> NoBody, rec |-> NoDoc] }
  \cup { [user |-> IndexOwner, op |-> "sync", docId |-> "", body |-> NoBody,
          rec |-> PushedRecord(d, ts)] : d \in IndexDocIds, ts \in Times }

\* The Index Actor of the owner with two documents in its index
NextList ==
  \/ \E i \in IndexTurns, r \in ListRequests :
       /\ FirstIdleIndex(i)
       /\ IndexStart(i, r.user, r.op, r.docId, r.body, r.rec, "env")
       /\ UNCHANGED <<docVars, routerVars, broken, client, channel>>
  \/ \E i \in IndexTurns : IndexUserLoaded(i) /\ UNCHANGED <<docVars, routerVars, broken, client, channel>>
  \/ \E i \in IndexTurns : IndexListLoaded(i) /\ UNCHANGED <<docVars, routerVars, broken, client, channel>>
  \/ \E i \in IndexTurns : IndexUpsertLoaded(i) /\ UNCHANGED <<docVars, routerVars, broken, client, channel>>
  \/ IndexPutDone /\ UNCHANGED <<docVars, routerVars, broken, client, channel>>
  \/ IndexDeliver /\ UNCHANGED <<docVars, routerVars, broken, client, channel>>

SpecList == Init /\ [][NextList]_vars

\* The Index Actor of the owner and the Document Actor of d1: the owner's
\* writes come through the Index Actor and the realtime updates over one
\* socket; d1 may instead have been created by the other user
NextIndex ==
  \/ \E i \in IndexTurns, r \in RoutedRequests :
       /\ FirstIdleIndex(i)
       /\ r.op = "create" => DocUnused
       /\ r.op = "update" => IdKnown
       /\ IndexStart(i, r.user, r.op, r.docId, r.body, r.rec, "env")
       /\ UNCHANGED <<docVars, routerVars, broken, client, channel>>
  \/ \E i \in IndexTurns :
       /\ FirstIdleIndex(i)
       /\ PushInFlight
       /\ WithPushReply(IndexStart(i, persist.rec.ownerId, "sync", "", NoBody,
                                   persist.rec, "doc"))
  \/ \E i \in IndexTurns : WithPushReply(IndexUserLoaded(i))
  \/ \E i \in IndexTurns : IndexUpsertLoaded(i) /\ UNCHANGED <<docVars, routerVars, broken, client, channel>>
  \/ WithPushReply(IndexPutDone)
  \/ \E i \in IndexTurns, t \in Turns :
       FirstIdle(t) /\ IndexForward(i, t) /\ UNCHANGED <<routerVars, broken, client, channel>>
  \/ \E t \in Turns, r \in RoutedRequests :
       /\ indexResponse = NoIndexResp
       /\ r.op = "create"
       /\ DocUnused
       /\ FirstIdle(t)
       /\ WriteStart(t, OtherUser, "d1", CreateBody(r.body, OtherUser))
       /\ UNCHANGED <<indexVars, routerVars, broken, client, channel>>
  \/ DeliverToIndex /\ UNCHANGED <<routerVars, broken, client, channel>>
  \/ IndexDeliver /\ UNCHANGED <<docVars, routerVars, broken, client, channel>>
  \/ \E t \in Turns : indexResponse = NoIndexResp /\ WriteLoaded(t) /\ UNCHANGED <<indexVars, routerVars, broken, client, channel>>
  \/ \E t \in Turns : \E docId \in DocIds :
       /\ indexResponse = NoIndexResp
       /\ Registered = {}
       /\ IdKnown
       /\ FirstIdle(t)
       /\ UpgradeStart(t, IndexOwner, docId)
       /\ UNCHANGED <<indexVars, routerVars, broken, client, channel>>
  \/ \E t \in Turns : indexResponse = NoIndexResp /\ UpgradeLoaded(t) /\ UNCHANGED <<indexVars, routerVars, broken, client, channel>>
  \/ \E t \in Turns, ws \in Sockets, payload \in UpdatePayloads :
       /\ indexResponse = NoIndexResp
       /\ payload.hasId
       /\ FirstIdle(t)
       /\ Message(t, ws, "update", payload)
       /\ UNCHANGED <<indexVars, routerVars, broken, client, channel>>
  \/ indexResponse = NoIndexResp /\ PutDone /\ UNCHANGED <<indexVars, routerVars, broken, client, channel>>
  \/ \E t \in Turns : indexResponse = NoIndexResp /\ Resume(t) /\ UNCHANGED <<indexVars, routerVars, broken, client, channel>>

SpecIndex == Init /\ [][NextIndex]_vars

\* The body of a POST /docs/:id that asks for the document to be initialized:
\* the Router and updateDoc pass the body on as it is (lines 366-379, 552-559)
InitializeBody ==
  MkBody([title |-> "T1", content |-> Omitted, hasTags |-> FALSE, tags |-> <<>>],
         TRUE, Omitted, FALSE, 0)

\* The owner of the index and the other user write document d1 and ask for
\* its initialization, the owner through the Index Actor, the other user
\* through theirs, which is seen here as the request at the Document Actor
NextInitialize ==
  \/ \E i \in IndexTurns :
       /\ FirstIdleIndex(i)
       /\ IndexStart(i, IndexOwner, "update", "d1", InitializeBody, NoDoc, "env")
       /\ UNCHANGED <<docVars, routerVars, broken, client, channel>>
  \/ \E i \in IndexTurns : IndexUserLoaded(i) /\ UNCHANGED <<docVars, routerVars, broken, client, channel>>
  \/ \E i \in IndexTurns : IndexUpsertLoaded(i) /\ UNCHANGED <<docVars, routerVars, broken, client, channel>>
  \/ IndexPutDone /\ UNCHANGED <<docVars, routerVars, broken, client, channel>>
  \/ \E i \in IndexTurns, t \in Turns :
       FirstIdle(t) /\ IndexForward(i, t) /\ UNCHANGED <<routerVars, broken, client, channel>>
  \/ \E t \in Turns :
       /\ indexResponse = NoIndexResp
       /\ FirstIdle(t)
       /\ WriteStart(t, OtherUser, "d1", InitializeBody)
       /\ UNCHANGED <<indexVars, routerVars, broken, client, channel>>
  \/ DeliverToIndex /\ UNCHANGED <<routerVars, broken, client, channel>>
  \/ IndexDeliver /\ UNCHANGED <<docVars, routerVars, broken, client, channel>>
  \/ \E t \in Turns : indexResponse = NoIndexResp /\ WriteLoaded(t) /\ UNCHANGED <<indexVars, routerVars, broken, client, channel>>
  \/ indexResponse = NoIndexResp /\ PutDone /\ UNCHANGED <<indexVars, routerVars, broken, client, channel>>

SpecInitialize == Init /\ [][NextInitialize]_vars

\* Writes that handlers of the Index Actor have yet to forward
PendingForwards ==
  Cardinality({i \in IndexTurns : /\ indexTurn[i].op \in {"create", "update"}
                                  /\ indexTurn[i].pc \in {"uidGet", "uidPut", "fwd"}})

\* One more write may be started
WritesLeft == Len(accepted) + InFlightWrites + PendingForwards < MaxWrites

\* No request of a client is being handled by the Index Actor, so that a
\* handler is left for the push of the Document Actor
NoClientRequest == \A i \in IndexTurns : indexTurn[i].origin # "env"

\* The create of d1 has returned its id to the client
IdGiven == IdKnown /\ ActorRecord # NoDoc

\* The clients: the owner creates d1 through the Index Actor and then, with
\* the id that the create returned, updates it through the Index Actor, opens
\* a socket and sends updates over it
ClientStep ==
  \/ \E i \in IndexTurns, r \in RoutedRequests :
       /\ FirstIdleIndex(i)
       /\ NoClientRequest
       /\ WritesLeft
       /\ r.op = "create" => DocUnused
       /\ r.op = "update" => IdGiven
       /\ IndexStart(i, r.user, r.op, r.docId, r.body, r.rec, "env")
       /\ UNCHANGED <<docVars, routerVars, broken, client, channel>>
  \/ \E t \in Turns : \E docId \in DocIds :
       /\ indexResponse = NoIndexResp
       /\ Registered = {}
       /\ IdGiven
       /\ FirstIdle(t)
       /\ UpgradeStart(t, IndexOwner, docId)
       /\ UNCHANGED <<indexVars, routerVars, broken, client, channel>>
  \/ \E t \in Turns, ws \in Sockets, payload \in UpdatePayloads :
       /\ indexResponse = NoIndexResp
       /\ payload.hasId
       /\ WritesLeft
       /\ FirstIdle(t)
       /\ Message(t, ws, "update", payload)
       /\ UNCHANGED <<indexVars, routerVars, broken, client, channel>>

\* The runtime: a request sent by an actor reaches the other actor, a storage
\* operation completes, a response is handed over, a continuation runs
PushArrives ==
  \E i \in IndexTurns :
    /\ FirstIdleIndex(i)
    /\ PushInFlight
    /\ WithPushReply(IndexStart(i, persist.rec.ownerId, "sync", "", NoBody,
                                persist.rec, "doc"))

IndexLoads(i) ==
  \/ WithPushReply(IndexUserLoaded(i))
  \/ IndexUpsertLoaded(i) /\ UNCHANGED <<docVars, routerVars, broken, client, channel>>

IndexPuts == WithPushReply(IndexPutDone)

ForwardArrives(i) ==
  \E t \in Turns : FirstIdle(t) /\ IndexForward(i, t) /\ UNCHANGED <<routerVars, broken, client, channel>>

Delivers ==
  \/ DeliverToIndex /\ UNCHANGED <<routerVars, broken, client, channel>>
  \/ IndexDeliver /\ UNCHANGED <<docVars, routerVars, broken, client, channel>>

\* storage.get returns to the create; later handlers find the record in memory
DocumentLoads(t) ==
  indexResponse = NoIndexResp /\ WriteLoaded(t) /\ UNCHANGED <<indexVars, routerVars, broken, client, channel>>

DocumentPuts == indexResponse = NoIndexResp /\ PutDone /\ UNCHANGED <<indexVars, routerVars, broken, client, channel>>

Resumes(t) == indexResponse = NoIndexResp /\ Resume(t) /\ UNCHANGED <<indexVars, routerVars, broken, client, channel>>

RuntimeStep ==
  \/ PushArrives
  \/ \E i \in IndexTurns : IndexLoads(i)
  \/ IndexPuts
  \/ \E i \in IndexTurns : ForwardArrives(i)
  \/ Delivers
  \/ \E t \in Turns : DocumentLoads(t)
  \/ DocumentPuts
  \/ \E t \in Turns : Resumes(t)

NextLive == ClientStep \/ RuntimeStep

\* Fair scheduling without failures: whatever the runtime can do, it does in
\* the end; the clients need not send anything.  The clients of ClientStep
\* send finitely many requests, so no step of the runtime is put off for ever
\* by other steps.
Fairness == WF_vars(RuntimeStep)

SpecLive == Init /\ [][NextLive]_vars /\ Fairness

\* ------------------------------------------------------------------------
\* The Router: authentication, CORS and dispatch
\* ------------------------------------------------------------------------
\* The values of the Origin header, and the configured lists
\* (env.ALLOWED_ORIGINS split at the commas and trimmed, line 152)
Origins == {"o1", "o2"}

AllowedLists == {Unset, <<"o1">>, <<"o2", "o1">>, <<"*">>, <<"o1", "*">>}

WorkerEnvs == [secret : BOOLEAN, allowed : AllowedLists]

Includes(list, x) == \E k \in 1..Len(list) : list[k] = x

\* The value of Access-Control-Allow-Origin, lines 151-161
AllowOrigin(requestOrigin, configuredOrigins) ==
  LET allowOrigin ==
        IF Len(configuredOrigins) > 0
        THEN IF Includes(configuredOrigins, "*") THEN "*"
             ELSE IF Includes(configuredOrigins, requestOrigin)
                  THEN requestOrigin
                  ELSE configuredOrigins[1]
        ELSE IF requestOrigin = NoHeader THEN "*" ELSE requestOrigin
  IN IF allowOrigin = NoHeader THEN "*" ELSE allowOrigin

\* corsHeaders, lines 145-167
corsHeaders(request, env) ==
  [allowOrigin |-> AllowOrigin(request.origin, env.allowed),
   credentials |-> TRUE, vary |-> "Origin"]

\* jsonResponse, lines 169-179
jsonResponse(request, env, status) ==
  [status |-> status, shape |-> "json", cors |-> corsHeaders(request, env)]

\* emptyResponse, lines 181-182
emptyResponse(request, env) ==
  [status |-> 204, shape |-> "empty", cors |-> corsHeaders(request, env)]

\* A rejected promise of fetch: the exception leaves the Router
Thrown == [status |-> 0, shape |-> "thrown", cors |-> NoCors]

\* The token that authenticateRequest takes from the request, lines 193-200
TokenOf(request) ==
  IF request.bearer # "none" THEN request.bearer
  ELSE IF request.upgrade THEN request.queryAuth
       ELSE "none"

\* The requests that reach the Worker
RouterRequests ==
  [method : {"OPTIONS", "GET", "POST"},
   path : {"/me/docs", "/docs/d1", "/docs/d1/sync", "/other"},
   upgrade : BOOLEAN,
   bearer : {"none", "bad", "nouser", "good"},
   queryAuth : {"none", "good"},
   origin : Origins \cup {NoHeader},
   json : BOOLEAN]

\* The statuses with which an actor answers the Router
ActorStatuses == {101, 200, 201, 400, 403, 404}

\* The handler returns a response (noted with the request it answers)
RouterReturn(request, resp) ==
  /\ routerTurn' = IdleRouterTurn
  /\ routerResponse' = [req |-> request, status |-> resp.status,
                        shape |-> resp.shape, cors |-> resp.cors]

RouterGoto(tr, pc) ==
  /\ routerTurn' = [tr EXCEPT !.pc = pc]
  /\ routerResponse' = NoRouterResp

\* A request is sent to an actor and the handler awaits (or returns) the call
RouterCall(tr, actor, pc) ==
  /\ routerCalls' = Append(routerCalls, actor)
  /\ RouterGoto(tr, pc)

\* fetch up to the await of verifyToken, lines 249-253 and 189-208: OPTIONS is answered at
\* once, a missing token and a missing secret end authenticateRequest
RouterStart(request) ==
  /\ routerTurn.pc = "idle"
  /\ routerResponse = NoRouterResp
  /\ routerCalls' = <<>>
  /\ LET tr == [IdleRouterTurn EXCEPT !.req = request]
     IN IF request.method = "OPTIONS"
        THEN RouterReturn(request, emptyResponse(request, workerEnv))
        ELSE IF TokenOf(request) = "none"
             THEN RouterReturn(request, jsonResponse(request, workerEnv, 401))
             ELSE IF ~workerEnv.secret
                  THEN RouterReturn(request, jsonResponse(request, workerEnv, 500))
                  ELSE RouterGoto(tr, "verify")
  /\ UNCHANGED workerEnv

\* fetch after authenticateRequest returned the user, lines 258-304, up to the
\* call of an actor or the await of parseJson
RouterDispatch(tr) ==
  LET request == tr.req
  IN IF request.upgrade /\ request.path = "/docs/d1/sync"
     THEN RouterCall([tr EXCEPT !.op = "upgrade"], "DocumentDO", "passCall")
     ELSE IF request.path = "/me/docs" /\ request.method = "GET"
     THEN RouterCall([tr EXCEPT !.op = "list"], "UserIndexDO", "call")
     ELSE IF request.path = "/me/docs" /\ request.method = "POST"
     THEN RouterGoto([tr EXCEPT !.op = "create"], "parse") /\ UNCHANGED routerCalls
     ELSE IF request.path = "/docs/d1" /\ request.method = "GET"
     THEN RouterCall([tr EXCEPT !.op = "read"], "DocumentDO", "call")
     ELSE IF request.path = "/docs/d1" /\ request.method = "POST"
     THEN RouterGoto([tr EXCEPT !.op = "update"], "parse") /\ UNCHANGED routerCalls
     ELSE RouterReturn(request, jsonResponse(request, workerEnv, 404)) /\ UNCHANGED routerCalls

\* verifyToken settled, lines 208-232
RouterVerified ==
  /\ routerTurn.pc = "verify"
  /\ LET tr == routerTurn
         token == TokenOf(tr.req)
     IN IF token = "good"
        THEN RouterDispatch([tr EXCEPT !.userId = "u1"])
        ELSE /\ RouterReturn(tr.req, jsonResponse(tr.req, workerEnv, 401))
             /\ UNCHANGED routerCalls
  /\ UNCHANGED workerEnv

\* parseJson settled in createDocument or updateDocument, lines 324-327 and
\* 364-367, up to the await of the call of the Index Actor
RouterParsed ==
  /\ routerTurn.pc = "parse"
  /\ IF routerTurn.req.json
     THEN RouterCall(routerTurn, "UserIndexDO", "call")
     ELSE /\ RouterReturn(routerTurn.req, jsonResponse(routerTurn.req, workerEnv, 400))
          /\ UNCHANGED routerCalls
  /\ UNCHANGED workerEnv

\* The actor answers.  listDocuments, createDocument, readDocument and
\* updateDocument pass the answer on with the CORS headers (forwardDoResponse,
\* lines 383-389); the answer to an upgrade is returned as it is (line 274)
RouterCallReturns(status) ==
  /\ routerTurn.pc \in {"call", "passCall"}
  /\ LET passed == forwardDoResponse([status |-> status, document |-> NoDoc])
     IN IF routerTurn.pc = "call"
        THEN RouterReturn(routerTurn.req,
                          [status |-> passed.status, shape |-> "forwarded",
                           cors |-> corsHeaders(routerTurn.req, workerEnv)])
        ELSE RouterReturn(routerTurn.req,
                          [status |-> status, shape |-> "actor", cors |-> NoCors])
  /\ UNCHANGED <<workerEnv, routerCalls>>

\* The call of the actor rejects.  The promise of listDocuments and the like
\* is returned from the try block without await (lines 279-298) and the
\* upgrade is returned before the try block (line 274): no catch clause runs
\* and the promise of fetch rejects
RouterCallThrows ==
  /\ routerTurn.pc \in {"call", "passCall"}
  /\ RouterReturn(routerTurn.req, Thrown)
  /\ UNCHANGED <<workerEnv, routerCalls>>

\* The response of the last step of the Router is handed over
RouterDeliver ==
  /\ routerResponse # NoRouterResp
  /\ routerResponse' = NoRouterResp
  /\ UNCHANGED <<workerEnv, routerTurn, routerCalls>>

InitWorker ==
  /\ InitIndex
  /\ InitRouter(WorkerEnvs)
  /\ InitDocument

NextRouter ==
  \/ \E request \in RouterRequests : RouterStart(request) /\ UNCHANGED <<docVars, indexVars, broken, client, channel>>
  \/ RouterVerified /\ UNCHANGED <<docVars, indexVars, broken, client, channel>>
  \/ RouterParsed /\ UNCHANGED <<docVars, indexVars, broken, client, channel>>
  \/ \E status \in ActorStatuses :
       RouterCallReturns(status) /\ UNCHANGED <<docVars, indexVars, broken, client, channel>>
  \/ RouterCallThrows /\ UNCHANGED <<docVars, indexVars, broken, client, channel>>
  \/ RouterDeliver /\ UNCHANGED <<docVars, indexVars, broken, client, channel>>

SpecRouter == InitWorker /\ [][NextRouter]_vars

\* ------------------------------------------------------------------------
\* The client: editing, the realtime connection and switching documents
\* ------------------------------------------------------------------------
\* The handlers of the component are translated as operators on its state c
\* and its WebSocket ch; each gives the state and the WebSocket after the
\* handler has run up to its first await.
\*
\* Fields of c that are not let-bindings of the script:
\*   content       what serializeDocument() reads from the editor
\*   tokenWait     the targets of the calls of establishRealtimeConnection
\*                 that are suspended at await getSessionToken()
\*   pc and the locals candidateId, previousDocId: the position of the one
\*                 handleDocumentSelect or handleCreateNewDocument in progress
\*   lastCaptured  history: the last payload captured for the document shown
\*   sentLog       history: the payloads passed to send() on an open socket
\*                 since the document shown was loaded
\* realtimeReconnectTimer holds the docToReconnect of the scheduled callback.

\* realtimeSocket && realtimeSocket.readyState === WebSocket.OPEN
ClientOpen(c, ch) ==
  /\ c.realtimeSocket # NoSocket
  /\ c.realtimeSocket = ch.sock
  /\ ch.state = "open"

\* The payload is captured from the editor; it carries no document id
captureRealtimePayload(c) ==
  IF c.docId = NoClientDoc THEN NoPayload ELSE c.content

\* c after the payload p has been captured and made the pending one
WithPending(c, p) ==
  [c EXCEPT !.pendingRealtimePayload = p,
            !.lastCaptured = [doc |-> c.docId, content |-> p]]

\* The pending payload is sent if there is one and the socket is open; id is
\* the id of the tracked message, 0 when the function returns null
sendPendingRealtimePayload(c, ch, trackAck) ==
  IF c.pendingRealtimePayload = NoPayload \/ ~ClientOpen(c, ch)
  THEN [client |-> c, channel |-> ch, id |-> 0]
  ELSE LET messageId == c.clientMessageCounter + 1
       IN [client |->
             [c EXCEPT !.pendingRealtimePayload = NoPayload,
                       !.clientMessageCounter = messageId,
                       !.pendingAckIds = @ \cup {messageId},
                       !.ackResolvers =
                          IF trackAck THEN @ \cup {messageId} ELSE @,
                       !.sentLog =
                          @ \cup {[doc |-> c.realtimeDocId,
                                   content |-> c.pendingRealtimePayload]}],
           channel |-> [ch EXCEPT !.up = Append(@, messageId)],
           id |-> IF trackAck THEN messageId ELSE 0]

\* The editor is captured and sent at once, or within the send interval
queueRealtimeUpdate(c, ch, immediate) ==
  LET payload == captureRealtimePayload(c)
      queued  == [WithPending(c, payload) EXCEPT !.isDirty = TRUE]
  IN IF payload = NoPayload THEN [client |-> c, channel |-> ch, id |-> 0]
     ELSE IF ~ClientOpen(queued, ch)
          THEN [client |-> queued, channel |-> ch, id |-> 0]
     ELSE IF immediate THEN sendPendingRealtimePayload(queued, ch, FALSE)
     ELSE [client |-> [queued EXCEPT !.realtimeSendTimer = TRUE],
           channel |-> ch, id |-> 0]

\* flushRealtimeUpdates up to await tracked.promise: the timer is cleared, a
\* payload is captured if none is pending, and it is sent if the socket is open
flushRealtimeUpdates(c, ch) ==
  LET cleared  == [c EXCEPT !.realtimeSendTimer = FALSE]
      payload  == captureRealtimePayload(cleared)
      captured == IF cleared.pendingRealtimePayload = NoPayload
                     /\ payload # NoPayload
                  THEN WithPending(cleared, payload)
                  ELSE cleared
  IN sendPendingRealtimePayload(captured, ch, TRUE)

\* The id is taken out of the outstanding acks and its resolver is dropped
handleRealtimeAck(c, id) ==
  LET acked == [c EXCEPT !.pendingAckIds = @ \ {id},
                         !.ackResolvers = @ \ {id}]
  IN [acked EXCEPT !.isDirty = \/ acked.pendingAckIds # {}
                               \/ acked.pendingRealtimePayload # NoPayload]

\* A reconnect is scheduled unless one is scheduled already
scheduleRealtimeReconnect(c, docToReconnect) ==
  IF docToReconnect = NoClientDoc \/ c.realtimeReconnectTimer # NoClientDoc
  THEN c
  ELSE [c EXCEPT !.realtimeReconnectTimer = docToReconnect]

\* The close event of the socket the component holds
handleRealtimeClose(c) ==
  LET closedDocId == c.realtimeDocId
      dropped == [c EXCEPT !.realtimeSocket = NoSocket,
                           !.realtimeDocId = NoClientDoc]
      marked  == IF \/ dropped.pendingAckIds # {}
                    \/ dropped.pendingRealtimePayload # NoPayload
                 THEN [dropped EXCEPT !.isDirty = TRUE]
                 ELSE dropped
      payload == captureRealtimePayload(marked)
      kept    == IF marked.pendingRealtimePayload = NoPayload
                    /\ payload # NoPayload
                 THEN [WithPending(marked, payload) EXCEPT !.isDirty = TRUE]
                 ELSE marked
  IN IF kept.desiredRealtimeDocId # NoClientDoc
        /\ kept.desiredRealtimeDocId = closedDocId
     THEN scheduleRealtimeReconnect(kept, closedDocId)
     ELSE kept

\* The reconnect timer is cleared; the socket is closed with its listeners
\* detached, so that none of its events reaches the component any more
teardownRealtimeConnection(c, ch) ==
  [client |-> [c EXCEPT !.realtimeReconnectTimer = NoClientDoc,
                        !.realtimeSocket = NoSocket],
   channel |-> IF c.realtimeSocket # NoSocket
               THEN [ch EXCEPT !.sock = NoSocket, !.state = "none",
                               !.up = <<>>, !.down = <<>>]
               ELSE ch,
   id |-> 0]

\* establishRealtimeConnection up to await getSessionToken()
establishRealtimeConnection(c, ch, targetDocId) ==
  LET torn == teardownRealtimeConnection(
                 [c EXCEPT !.desiredRealtimeDocId = targetDocId], ch)
  IN [client |-> [torn.client EXCEPT !.tokenWait = @ \cup {targetDocId}],
      channel |-> torn.channel, id |-> 0]

\* The open socket of the document shown is kept, any other is replaced
ensureRealtimeSession(c, ch) ==
  IF c.docId = NoClientDoc THEN [client |-> c, channel |-> ch, id |-> 0]
  ELSE IF ClientOpen(c, ch) /\ c.realtimeDocId = c.docId
       THEN [client |-> [c EXCEPT !.desiredRealtimeDocId = c.docId],
             channel |-> ch, id |-> 0]
       ELSE establishRealtimeConnection(c, ch, c.docId)

\* The step takes the component and its WebSocket to the result r
ClientBecomes(r) ==
  /\ client' = r.client
  /\ channel' = r.channel
  /\ UNCHANGED <<docVars, indexVars, routerVars, broken>>

\* The content that the next edit leaves in the editor
NextContent(content) ==
  LET i == CHOOSE k \in 1..Len(ContentOrder) : ContentOrder[k] = content
  IN ContentOrder[i + 1]

\* handleInput: the user types
ClientEdit ==
  /\ client.content # ContentOrder[Len(ContentOrder)]
  /\ ClientBecomes(queueRealtimeUpdate(
        [client EXCEPT !.content = NextContent(client.content),
                       !.isDirty = TRUE], channel, FALSE))

\* handleBlur: the editor loses the focus while an edit waits to be sent
ClientBlur ==
  /\ client.pendingRealtimePayload # NoPayload
  /\ ClientBecomes(queueRealtimeUpdate(client, channel, TRUE))

\* The callback of realtimeSendTimer
ClientSendTimerFires ==
  /\ client.realtimeSendTimer
  /\ ClientBecomes(sendPendingRealtimePayload(
        [client EXCEPT !.realtimeSendTimer = FALSE], channel, FALSE))

\* The session token arrives: the rest of establishRealtimeConnection makes
\* the WebSocket and holds it, in place of any other the component held
ClientTokenArrives(targetDocId) ==
  /\ targetDocId \in client.tokenWait
  /\ channel.used < Len(ClientSocketOrder)
  /\ LET socket == ClientSocketOrder[channel.used + 1]
     IN ClientBecomes(
          [client |-> [client EXCEPT !.tokenWait = @ \ {targetDocId},
                                     !.realtimeSocket = socket,
                                     !.realtimeDocId = targetDocId],
           channel |-> [sock |-> socket, state |-> "connecting",
                        up |-> <<>>, down |-> <<>>,
                        used |-> channel.used + 1],
           id |-> 0])

\* handleRealtimeOpen: the open event of the socket the component holds
ClientSocketOpens ==
  /\ client.realtimeSocket # NoSocket
  /\ client.realtimeSocket = channel.sock
  /\ channel.state = "connecting"
  /\ ClientBecomes(sendPendingRealtimePayload(
        client, [channel EXCEPT !.state = "open"], FALSE))

\* The Document Actor answers the oldest update in flight with an ack on the
\* socket that the update came on (worker, handleRealtimeUpdate)
ClientServerAcks ==
  /\ channel.state = "open"
  /\ channel.up # <<>>
  /\ ClientBecomes(
        [client |-> client,
         channel |-> [channel EXCEPT !.up = Tail(@),
                                     !.down = Append(@, Head(channel.up))],
         id |-> 0])

\* flushRealtimeUpdates has returned: handleDocumentSelect tears the
\* connection down and requests the document, handleCreateNewDocument posts
AfterFlush(c, ch) ==
  IF c.pc = "selectFlush"
  THEN LET torn == teardownRealtimeConnection(c, ch)
       IN [client |-> [torn.client EXCEPT !.pc = "selectLoad"],
           channel |-> torn.channel, id |-> 0]
  ELSE [client |-> [c EXCEPT !.pc = "createPost"], channel |-> ch, id |-> 0]

\* handleRealtimeMessage with an ack; the resolver of a tracked message
\* resumes the handler that awaits it
ClientAckArrives ==
  /\ channel.state = "open"
  /\ channel.down # <<>>
  /\ LET id    == Head(channel.down)
         acked == handleRealtimeAck(client, id)
         rest  == [channel EXCEPT !.down = Tail(@)]
     IN IF id \in client.ackResolvers
           /\ client.pc \in {"selectFlush", "createFlush"}
        THEN ClientBecomes(AfterFlush(acked, rest))
        ELSE ClientBecomes([client |-> acked, channel |-> rest, id |-> 0])

\* The 5000 ms timeout of the tracked message: the promise rejects and
\* flushRealtimeUpdates returns
ClientFlushTimeout ==
  /\ client.pc \in {"selectFlush", "createFlush"}
  /\ ClientBecomes(AfterFlush([client EXCEPT !.ackResolvers = {}], channel))

\* The connection is lost: readyState becomes CLOSED, the frames in flight
\* are lost and the close event is queued
ClientConnectionDrops ==
  /\ client.realtimeSocket # NoSocket
  /\ client.realtimeSocket = channel.sock
  /\ channel.state \in {"connecting", "open"}
  /\ ClientBecomes(
        [client |-> client,
         channel |-> [channel EXCEPT !.state = "closed",
                                     !.up = <<>>, !.down = <<>>],
         id |-> 0])

\* The close event is delivered
ClientCloseEvent ==
  /\ client.realtimeSocket # NoSocket
  /\ client.realtimeSocket = channel.sock
  /\ channel.state = "closed"
  /\ ClientBecomes(
        [client |-> handleRealtimeClose(client),
         channel |-> [channel EXCEPT !.sock = NoSocket, !.state = "none"],
         id |-> 0])

\* The callback of realtimeReconnectTimer
ClientReconnectFires ==
  /\ client.realtimeReconnectTimer # NoClientDoc
  /\ LET docToReconnect == client.realtimeReconnectTimer
         fired == [client EXCEPT !.realtimeReconnectTimer = NoClientDoc]
     IN IF fired.desiredRealtimeDocId = docToReconnect
        THEN ClientBecomes(
               establishRealtimeConnection(fired, channel, docToReconnect))
        ELSE ClientBecomes([client |-> fired, channel |-> channel, id |-> 0])

\* The handler has flushed: it awaits the ack of the tracked message if one
\* was sent and goes on otherwise
AwaitFlush(flushed, waiting) ==
  IF flushed.id # 0
  THEN [client |-> [flushed.client EXCEPT !.pc = waiting],
        channel |-> flushed.channel, id |-> 0]
  ELSE AfterFlush([flushed.client EXCEPT !.pc = waiting], flushed.channel)

\* handleDocumentSelect up to its first await
ClientSelect(candidateId) ==
  /\ client.pc = "idle"
  /\ candidateId # client.docId
  /\ channel.used < Len(ClientSocketOrder)
  /\ LET started == [client EXCEPT !.previousDocId = client.docId,
                                   !.candidateId = candidateId,
                                   !.desiredRealtimeDocId = candidateId]
     IN ClientBecomes(AwaitFlush(flushRealtimeUpdates(started, channel),
                                 "selectFlush"))

\* loadExistingDocument returns and handleDocumentSelect runs to its end
ClientLoadReturns(loaded) ==
  /\ client.pc = "selectLoad"
  /\ LET done == [client EXCEPT !.pc = "idle",
                                !.candidateId = NoClientDoc,
                                !.previousDocId = NoClientDoc]
     IN IF loaded
        THEN ClientBecomes(ensureRealtimeSession(
               [done EXCEPT !.docId = client.candidateId,
                            !.isDirty = FALSE,
                            !.content = ContentOrder[1],
                            !.pendingRealtimePayload = NoPayload,
                            !.pendingAckIds = {},
                            !.lastCaptured = NoCapture,
                            !.sentLog = {}], channel))
        ELSE IF client.previousDocId # NoClientDoc
             THEN ClientBecomes(ensureRealtimeSession(
                    [done EXCEPT !.desiredRealtimeDocId =
                                    client.previousDocId], channel))
             ELSE ClientBecomes([client |-> done, channel |-> channel,
                                 id |-> 0])

\* handleCreateNewDocument up to its first await
ClientCreate ==
  /\ client.pc = "idle"
  /\ channel.used < Len(ClientSocketOrder)
  /\ ClientBecomes(AwaitFlush(flushRealtimeUpdates(client, channel),
                              "createFlush"))

\* POST /me/docs returns the new document and handleCreateNewDocument runs
\* to its end
ClientPostReturns ==
  /\ client.pc = "createPost"
  /\ LET created == CHOOSE d \in ClientDocs : d # client.docId
     IN ClientBecomes(ensureRealtimeSession(
          [client EXCEPT !.pc = "idle",
                         !.docId = created,
                         !.isDirty = FALSE,
                         !.content = ContentOrder[1],
                         !.pendingRealtimePayload = NoPayload,
                         !.pendingAckIds = {},
                         !.lastCaptured = NoCapture,
                            !.sentLog = {}], channel))

\* What the user and the network do
ClientUserStep ==
  \/ ClientEdit
  \/ ClientBlur
  \/ \E candidateId \in ClientDocs : ClientSelect(candidateId)
  \/ ClientCreate
  \/ ClientConnectionDrops

\* What the browser does of itself: timers, events and returning requests
ClientRuntimeStep ==
  \/ ClientSendTimerFires
  \/ \E targetDocId \in ClientDocs : ClientTokenArrives(targetDocId)
  \/ ClientSocketOpens
  \/ ClientServerAcks
  \/ ClientAckArrives
  \/ ClientFlushTimeout
  \/ ClientCloseEvent
  \/ ClientReconnectFires
  \/ \E loaded \in BOOLEAN : ClientLoadReturns(loaded)
  \/ ClientPostReturns

NextClient == ClientUserStep \/ ClientRuntimeStep

SpecClient == Init /\ [][NextClient]_vars

\* Timers fire, events are delivered and requests return
ClientFairness == WF_vars(ClientRuntimeStep)

SpecClientLive == Init /\ [][NextClient]_vars /\ ClientFairness

\* ------------------------------------------------------------------------
\* Properties of the Document Actor
\* ------------------------------------------------------------------------
\* Every handler has returned, no storage write is pending and the
\* persistence operation has settled
Quiescent ==
  /\ Delivered
  /\ putQueue = <<>>
  /\ persist = NoPersist
  /\ \A t \in Turns : turn[t].pc = "idle"

\* A handler came back from ensureDocumentLoaded in this step
LoadStep == \E t \in Turns : turn[t].pc = "load" /\ turn'[t].pc # "load"

\* The record that the handler running its checks in this step works on
SeenNow == IF LoadStep THEN Hydrate(storage) ELSE document

\* The step returns a response from a handler's checks (not from the
\* completion of a storage write)
CheckStep ==
  /\ response'.op \in {"read", "write", "upgrade"}
  /\ Len(putQueue') >= Len(putQueue)

\* The step accepts the HTTP write of turn t
AcceptsWrite(t) == turn[t].pc \in {"idle", "load"} /\ turn'[t].pc = "put"

\* The step accepts the realtime update of turn t
AcceptsUpdate(t) ==
  turn[t].pc = "idle" /\ turn'[t].pc = "wait" /\ turn'[t].op = "update"

\* C1: the version of a document is 1 after creation and grows by exactly one
\* with every accepted write (HTTP or realtime): the i-th accepted write builds
\* version i, so no two accepted writes build the same version.
C1_VersionPerAcceptedWrite == \A i \in 1..Len(accepted) : accepted[i] = i

\* C2: no update is lost.  In a history whose accepted writes built the
\* versions 1, 2, ..., k in this order, once every handler has returned and
\* persistence has settled, storage holds version k and the fields of the last
\* accepted write.
C2_NoLostUpdate ==
  (Quiescent /\ accepted # <<>> /\ \A i \in 1..Len(accepted) : accepted[i] = i)
    => (storage.version = Len(accepted) /\ storage = lastAccepted)

\* C3: persist before respond.  When a write's success response or a realtime
\* acknowledgement carries a record of version v, a storage write of a record
\* of version at least v has completed.
C3_PersistBeforeRespond ==
  /\ (response.op = "write" /\ response.status \in {200, 201})
       => response.document.version <= persistedMax
  /\ \A i \in 1..Len(sent) :
       sent[i].msg.type = "ack" => sent[i].msg.document.version <= persistedMax

\* C4: the ownerId of a document is fixed at creation: no step changes the
\* ownerId of the record in memory or of the record in storage.
C4_OwnerFixedAtCreation ==
  [][ /\ (document # NoDoc /\ document' # NoDoc)
           => document'.ownerId = document.ownerId
      /\ (storage # NoDoc) => (storage' # NoDoc /\ storage'.ownerId = storage.ownerId)
    ]_vars

C6_MissingDocumentNotCreated ==
  [][ /\ (CheckStep /\ response'.op = "write" /\ SeenNow = NoDoc)
           => /\ ~response'.body.initialize => response'.status = 404
              /\ (/\ response'.body.initialize
                  /\ response'.body.ownerId \notin {Omitted, response'.user})
                   => response'.status = 403
              /\ document' = NoDoc
              /\ storage' = NoDoc
              /\ putQueue' = putQueue
              /\ \A u \in Users : ReadStatus(Hydrate(storage'), u) = 404
      /\ \A t \in Turns :
           (AcceptsWrite(t) /\ SeenNow = NoDoc)
             => /\ turn'[t].body.initialize
                /\ turn'[t].body.ownerId \in {Omitted, turn'[t].user}
    ]_vars

\* An initialize write naming another owner was answered 403 and nothing exists
C6_Witness ==
  /\ response.op = "write"
  /\ response.status = 403
  /\ response.body.initialize
  /\ response.body.ownerId \notin {Omitted, response.user}
  /\ document = NoDoc
  /\ storage = NoDoc

\* C7: a successful initialize creates the document with version 1, the
\* caller as ownerId, the addressed id as docId and createdAt equal to
\* updatedAt, and a read by the owner right after returns that record; when
\* requests are made one after another, every accepted write adds one to the
\* version, so two further accepted updates bring it to version 3.
C7_CreateThenUpdate ==
  /\ (response.op = "write" /\ response.status = 201)
       => /\ response.document.version = 1
          /\ response.document.ownerId = response.user
          /\ response.document.docId = response.docId
          /\ response.document.createdAt = response.document.updatedAt
          /\ document = response.document
          /\ storage = response.document
          /\ ReadStatus(document, response.user) = 200
  /\ (Quiescent /\ accepted # <<>>)
       => /\ document.version = Len(accepted)
          /\ document = lastAccepted
          /\ \A i \in 1..Len(accepted) : accepted[i] = i

\* The document was created and two updates were accepted after it
C7_Witness ==
  /\ Quiescent
  /\ accepted = <<1, 2, 3>>
  /\ document.version = 3
  /\ storage = document

\* The fields an update with body b must keep from old to new
FrameKept(old, new, b) ==
  /\ b.title = Omitted => new.title = old.title
  /\ b.content = Omitted => new.content = old.content
  /\ ~b.hasTags => new.tags = old.tags
  /\ new.docId = old.docId
  /\ new.ownerId = old.ownerId
  /\ new.createdAt = old.createdAt

\* C8: an accepted update (HTTP or realtime) changes only the supplied fields
\* among title, content and tags, plus updatedAt and version: when the update
\* takes effect on the record, every omitted field keeps its prior value and
\* docId, ownerId and createdAt stay.
C8_UpdateFrame ==
  [][ /\ \A t \in Turns :
           (/\ turn[t].pc = "put"
            /\ turn'[t].pc = "idle"
            /\ turn[t].status = 200
            /\ document # NoDoc)
             => FrameKept(document, document', turn[t].body)
      /\ \A t \in Turns :
           AcceptsUpdate(t) => FrameKept(document, document', turn'[t].body)
    ]_vars

\* C9: read after write.  When a write is reported successful (response or
\* acknowledgement) and no other write was accepted after it, the record in
\* memory, which a read by the owner returns, is the record reported.
C9_ReadAfterWrite ==
  /\ (/\ response.op = "write"
      /\ response.status \in {200, 201}
      /\ response.document = lastAccepted)
       => document = response.document
  /\ \A i \in 1..Len(sent) :
       (sent[i].msg.type = "ack" /\ sent[i].msg.document = lastAccepted)
         => document = sent[i].msg.document

\* C10: a handshake by the owner of an existing document registers exactly one
\* new session and sends on it, as its only message, a snapshot of the
\* actor's current record; an upgrade answered 404 or 403 registers no session
\* and sends nothing; sessions are registered by no other step.
C10_HandshakeSnapshot ==
  [][ /\ (response'.op = "upgrade")
           => /\ response'.status =
                   (IF SeenNow = NoDoc THEN 404
                    ELSE IF SeenNow.ownerId # response'.user THEN 403 ELSE 101)
              /\ response'.status = 101
                   => /\ response'.ws \in Sockets
                      /\ connections[response'.ws] = NoSession
                      /\ connections' =
                           [connections EXCEPT ![response'.ws] = response'.user]
                      /\ document' = SeenNow
                      /\ Len(sent') = 1
                      /\ sent'[1].to = response'.ws
                      /\ sent'[1].msg.type = "snapshot"
                      /\ sent'[1].msg.document = document'
              /\ response'.status # 101
                   => (connections' = connections /\ sent' = <<>>)
      /\ (\E s \in Sockets : connections[s] = NoSession /\ connections'[s] # NoSession)
           => (response'.op = "upgrade" /\ response'.status = 101)
    ]_vars

\* A second session was registered on a document that has been updated
C10_Witness ==
  /\ response.op = "upgrade"
  /\ response.status = 101
  /\ Cardinality(Registered) = 2
  /\ document.version = 2
  /\ Len(sent) = 1
  /\ sent[1].msg.type = "snapshot"

\* The handler of the realtime update of turn t returns in this step
UpdateReturns(t) ==
  /\ turn[t].op = "update"
  /\ turn[t].pc \in {"wait", "resume"}
  /\ turn'[t].pc = "idle"

\* The messages of list out that go to socket s
SentTo(out, s) == {i \in 1..Len(out) : out[i].to = s}

\* C11: when the handler of an accepted realtime update returns, it has sent
\* exactly one ack to the sender (if the sender is still connected),
\* carrying the numeric id of the update and the record the update built,
\* and exactly one remote-update with the same record to every other socket
\* then connected; the sender gets no remote-update, closed sockets get
\* nothing, and no other step sends an ack or a remote-update.
C11_AckAndFanOut ==
  [][ /\ \A t \in Turns :
           AcceptsUpdate(t) => (turn'[t].rec = document' /\ turn'[t].rec = lastAccepted')
      /\ \A t \in Turns :
           UpdateReturns(t) =>
             \A s \in Sockets :
               IF connections[s] = NoSession THEN SentTo(sent', s) = {}
               ELSE /\ Cardinality(SentTo(sent', s)) = 1
                    /\ \A i \in SentTo(sent', s) :
                         /\ sent'[i].msg.document = turn[t].rec
                         /\ IF s = turn[t].ws
                            THEN /\ sent'[i].msg.type = "ack"
                                 /\ sent'[i].msg.hasId = turn[t].body.hasId
                                 /\ sent'[i].msg.id = turn[t].body.id
                            ELSE sent'[i].msg.type = "remote-update"
      /\ (\E i \in 1..Len(sent') : sent'[i].msg.type \in {"ack", "remote-update"})
           => \E t \in Turns : UpdateReturns(t)
    ]_vars

\* An update with id 5 was acknowledged to its sender and fanned out to the
\* other session
C11_Witness ==
  /\ Len(sent) = 2
  /\ sent[1].msg.type = "ack"
  /\ sent[1].msg.hasId
  /\ sent[1].msg.id = 5
  /\ sent[2].msg.type = "remote-update"
  /\ sent[2].to # sent[1].to
  /\ sent[2].msg.document = sent[1].msg.document
  /\ Cardinality(Registered) = 2

C13_IndexPushFailureHarmless ==
  [][ \A t \in Turns :
        UpdateReturns(t) =>
          /\ storage'.version >= turn[t].rec.version
          /\ \A s \in Sockets :
               connections[s] # NoSession =>
                 \E i \in SentTo(sent', s) :
                   /\ sent'[i].msg.document = turn[t].rec
                   /\ sent'[i].msg.type = (IF s = turn[t].ws THEN "ack" ELSE "remote-update")
    ]_vars

\* The close handler of turn t returns from its flush in this step
CloseReturns(t) ==
  /\ turn[t].op = "close"
  /\ turn[t].pc \in {"wait", "resume"}
  /\ turn'[t].pc = "idle"

\* A socket leaves the session set in this step
ClosesSocket(s) == connections[s] # NoSession /\ connections'[s] = NoSession

\* The step issues a storage write of the current record from persistNow
IssuesFlush ==
  /\ persist.stage = "none"
  /\ persist'.stage = "put"
  /\ putQueue' = Append(putQueue, [by |-> "persist", rec |-> document])

\* Removal of the closed socket and the forced write, whatever the dirty flag
FlushIssued ==
  /\ \A s \in Sockets :
       ClosesSocket(s) =>
         /\ connections' = [connections EXCEPT ![s] = NoSession]
         /\ (Registered = {s} /\ document # NoDoc) =>
              /\ \E t \in Turns :
                   /\ turn[t].pc = "idle"
                   /\ turn'[t].pc = "wait"
                   /\ turn'[t].op = "close"
                   /\ turn'[t].force
              /\ persist.stage = "none" => IssuesFlush
  /\ \A t \in Turns :
       (/\ turn[t].op = "close"
        /\ turn[t].pc = "resume"
        /\ turn[t].waiter
        /\ turn'[t] # turn[t]) =>
         /\ turn'[t].pc = "wait"
         /\ persist.stage = "none" => (IssuesFlush /\ ~turn'[t].waiter)
  /\ \A t \in Turns : CloseReturns(t) => ~turn[t].waiter

\* C14 as stated: a closing socket leaves the session set; if no session
\* remains, a storage write of the current record is issued whether or not
\* the dirty flag is set, also when another persistence is in flight; and
\* when the close handler returns, the storage slot equals the record in
\* memory.
C14_DisconnectFlush ==
  [][ /\ FlushIssued
      /\ \A t \in Turns : CloseReturns(t) => storage' = document'
    ]_vars

\* What does hold of the disconnect flush (C14): the socket is removed, the
\* write is forced, and the storage slot equals the record in memory when the
\* close handler returns provided the record in memory is still the one the
\* socket closed on.
C14_DisconnectFlushUndisturbed ==
  [][ /\ FlushIssued
      /\ \A t \in Turns :
           (CloseReturns(t) /\ document = turn[t].rec) => storage' = document'
    ]_vars

\* The handler of turn i is past ensureUserId: it reads or writes the index or
\* talks to a Document Actor
PastIdentityCheck(i) ==
  indexTurn[i].pc \in {"listGet", "upGet", "upPut", "fwd", "fwdWait"}

\* C15: the id an Index Actor has pinned, in memory and in its storage slot,
\* never changes, and a request that bears another id is answered Forbidden
\* and never gets past the identity check, also when the first two requests
\* bear different ids and overlap.
C15_IdentityPin ==
  [][/\ initializedUserId # NoUser => initializedUserId' = initializedUserId
     /\ indexStore.userId # NoUser => indexStore'.userId = indexStore.userId
     /\ \A i \in IndexTurns :
          /\ indexStore.userId # NoUser
          /\ PastIdentityCheck(i)'
          => indexTurn'[i].user = indexStore.userId
     /\ /\ indexStore.userId # NoUser
        /\ indexResponse' # NoIndexResp
        /\ indexResponse'.user # indexStore.userId
        => indexResponse'.status = 403]_vars

\* Every request to the Index Actor was answered and its storage is at rest
IndexQuiescent ==
  /\ indexResponse = NoIndexResp
  /\ indexPuts = <<>>
  /\ \A i \in IndexTurns : indexTurn[i].pc = "idle"

\* What listDocs returns for document d, lines 492-508
Listed(d) == indexStore.index[d]

\* C16: once every write to d1 and every upsert and push it triggered have
\* completed, the owner's index entry of d1 is the projection of the
\* canonical record, and a list returns it.
C16_IndexEventuallyConsistent ==
  /\ Quiescent
  /\ IndexQuiescent
  /\ ~dirty
  /\ document # NoDoc
  /\ document.ownerId = IndexOwner
  => Listed("d1") = Projection(document)

\* The handler of turn i returns from an accepted push in this step
PushReturns(i) ==
  /\ indexTurn[i].op = "sync"
  /\ indexTurn[i].pc = "upPut"
  /\ indexTurn'[i].pc = "idle"

\* C17: when an accepted push of record r returns, the index entry of
\* r.docId is the projection of r whatever version the entry had before, and
\* a push of a record whose projection the index holds already leaves the
\* index as it is; upserting a record twice is upserting it once.
C17_PushOverwritesAndIsIdempotent ==
  [][\A i \in IndexTurns :
       PushReturns(i) =>
         LET r == indexTurn[i].rec
         IN /\ indexResponse'.op = "sync"
            /\ indexResponse'.status = 200
            /\ indexStore'.index[r.docId] = Projection(r)
            /\ indexStore.index[r.docId] = Projection(r)
               => indexStore'.index = indexStore.index
            /\ Upsert(Upsert(indexStore.index, r), r) = Upsert(indexStore.index, r)]_vars

\* The put of a push of version 1 of d2 is about to complete over an entry
\* of version 2
C17_Witness ==
  /\ IndexReady
  /\ indexPuts # <<>>
  /\ Head(indexPuts).key = "index"
  /\ indexTurn[Head(indexPuts).by].op = "sync"
  /\ indexTurn[Head(indexPuts).by].rec.version = 1
  /\ indexStore.index["d2"].version = 2

\* The writes of the index that are under way
IsIndexWrite(p) == p.key = "index"

IndexWrites == SelectSeq(indexPuts, IsIndexWrite)

\* The step answers a push
AnswersPush == indexResponse'.op = "sync"

\* C18: a push whose record has no ownerId, or an ownerId that is not the
\* user the Index Actor has pinned, is answered Forbidden and the index is
\* left as it was.
C18_ForeignPushForbidden ==
  [][/\ AnswersPush
     /\ \/ indexResponse'.rec.ownerId = ""
        \/ indexResponse'.rec.ownerId # initializedUserId'
     => /\ indexResponse'.status = 403
        /\ indexStore'.index = indexStore.index
        /\ IndexWrites' = IndexWrites]_vars

\* The Index Actor answers a create or an update with success
WriteSucceeded ==
  /\ indexResponse.op \in {"create", "update"}
  /\ indexResponse.status \in {200, 201}

\* C19: when the Index Actor answers a create with 201 or an update with
\* 200, its index holds an entry of the returned document whose version is at
\* least the returned one, so that a list made right then includes it.
C19_IndexedBeforeSuccess ==
  WriteSucceeded =>
    LET r == indexResponse.document
    IN /\ indexResponse.status = UpsertStatus(indexResponse.op)
       /\ Listed(r.docId).docId = r.docId
       /\ Listed(r.docId).version >= r.version

\* An update was answered with version 2 while another upsert is under way
C19_Witness ==
  /\ WriteSucceeded
  /\ indexResponse.op = "update"
  /\ indexResponse.document.version = 2
  /\ \E i \in IndexTurns : indexTurn[i].pc \in {"upGet", "upPut"}

\* The handler of turn i receives the Document Actor's response in this step
ForwardAnswered(i) ==
  /\ indexTurn[i].pc = "fwdWait"
  /\ indexTurn'[i].pc # "fwdWait"

\* C20: when the Document Actor answers a forwarded create or update with an
\* error, the Index Actor returns that status and body, the Router passes
\* them on with only the CORS headers added, and the index is not modified.
C20_ErrorPassedThrough ==
  [][\A i \in IndexTurns :
       ForwardAnswered(i) /\ response.status \notin {200, 201} =>
         /\ indexTurn'[i].pc = "idle"
         /\ indexResponse'.op = indexTurn[i].op
         /\ indexResponse'.status = response.status
         /\ indexResponse'.document = response.document
         /\ forwardDoResponse(indexResponse').status = response.status
         /\ forwardDoResponse(indexResponse').document = response.document
         /\ indexStore' = indexStore
         /\ indexPuts' = indexPuts]_vars

\* The owner's update of a document of another user was answered Forbidden
C20_Witness ==
  /\ indexResponse.op = "update"
  /\ indexResponse.status = 403
  /\ forwardDoResponse(indexResponse).status = 403
  /\ document.ownerId = OtherUser
  /\ indexStore.index = EmptyIndex

\* The keys under which the stored index holds an entry
IndexedIds == {d \in IndexDocIds : indexStore.index[d] # NoEntry}

\* The step answers a list
ListAnswered == indexResponse.op = "list" /\ indexResponse.status = 200

\* C21: a list returns every entry of the index exactly once, and no entry
\* comes before an entry with a later updatedAt.
C21_ListCompleteAndSorted ==
  ListAnswered =>
    LET docs == indexResponse.documents
    IN /\ Len(docs) = Cardinality(IndexedIds)
       /\ \A d \in IndexedIds : \E k \in 1..Len(docs) : docs[k] = indexStore.index[d]
       /\ \A j, k \in 1..Len(docs) : j < k => docs[j].updatedAt >= docs[k].updatedAt

\* A list of two entries whose order is not the order of insertion
C21_Witness ==
  /\ ListAnswered
  /\ Len(indexResponse.documents) = 2
  /\ indexResponse.documents[1].docId = indexStore.keys[2]
  /\ indexResponse.documents[1].updatedAt > indexResponse.documents[2].updatedAt

\* A write that carried a tags array was accepted and is answered
TagsWritten ==
  /\ response.op = "write"
  /\ response.status \in {200, 201}
  /\ response.body.hasTags

\* C22: normalizing the result of a normalization yields that result again,
\* also for a tag that was cut at a blank.
C22_NormalizationIdempotent ==
  TagsWritten =>
    /\ response.document.tags = normalizeTagsInput(response.body.tags)
    /\ normalizeTagsInput(response.document.tags) = response.document.tags

\* A tag as the data model wants it: not empty, at most MAX_TAG_LENGTH long,
\* no blank at either end and no two blanks in a row
WellFormedTag(tag) ==
  /\ tag # <<>>
  /\ Len(tag) <= MAX_TAG_LENGTH
  /\ tag[1] \notin Whitespace
  /\ tag[Len(tag)] \notin Whitespace
  /\ \A k \in 1..(Len(tag) - 1) : ~(tag[k] \in Whitespace /\ tag[k + 1] \in Whitespace)

WellFormedTags(tags) ==
  /\ Len(tags) <= MAX_TAGS_PER_DOCUMENT
  /\ \A k \in 1..Len(tags) : WellFormedTag(tags[k])
  /\ \A j, k \in 1..Len(tags) : j # k => toLowerCase(tags[j]) # toLowerCase(tags[k])

\* C23: in every state the tags of the record in memory, of the record in
\* storage and of every index entry are at most 20, each not empty, at most
\* 48 characters, without blanks at the ends or runs of blanks, and no two
\* equal ignoring case.
C23_TagsWellFormed ==
  /\ WellFormedTags(document.tags)
  /\ WellFormedTags(storage.tags)
  /\ \A d \in IndexDocIds : WellFormedTags(indexStore.index[d].tags)

\* The steps of the tag sanitization, one by one
RECURSIVE DropEmpty(_)
DropEmpty(tags) ==
  IF tags = <<>> THEN <<>>
  ELSE IF Head(tags) = <<>> THEN DropEmpty(Tail(tags))
       ELSE <<Head(tags)>> \o DropEmpty(Tail(tags))

CollapsedTrimmedCut(value) ==
  LET kept == DropEmpty([k \in 1..Len(value) |-> Trim(CollapseWs(value[k]))])
  IN [k \in 1..Len(kept) |-> Slice(kept[k], MAX_TAG_LENGTH)]

Capped(tags) == SubSeq(tags, 1, Min(Len(tags), MAX_TAGS_PER_DOCUMENT))

\* The tags that no earlier tag equals ignoring case
Deduplicated(tags) ==
  LET first == {k \in 1..Len(tags) :
                  \A j \in 1..(k - 1) : toLowerCase(tags[j]) # toLowerCase(tags[k])}
      RECURSIVE Pick(_)
      Pick(k) == IF k > Len(tags) THEN <<>>
                 ELSE IF k \in first THEN <<tags[k]>> \o Pick(k + 1)
                      ELSE Pick(k + 1)
  IN Pick(1)

\* C24 as stated: the tags are collapsed, trimmed, the empty ones dropped,
\* each cut to the maximum length, the list capped at the maximum count and
\* then deduplicated ignoring case.
C24_CapThenDeduplicate ==
  TagsWritten =>
    response.document.tags = Deduplicated(Capped(CollapsedTrimmedCut(response.body.tags)))

\* C24 as the code has it: the tags are collapsed, trimmed, the empty ones
\* dropped, each cut to the maximum length, deduplicated ignoring case
\* (first casing and order kept) and then the list is capped at the maximum
\* count.
C24_DeduplicateThenCap ==
  TagsWritten =>
    response.document.tags = Capped(Deduplicated(CollapsedTrimmedCut(response.body.tags)))

\* A list with a duplicate among its first 20 tags and further distinct tags
\* was written: the record has 20 tags, one more than capping first gives
C24_Witness ==
  /\ TagsWritten
  /\ response.body.tags = TooMany
  /\ Len(response.document.tags) = MAX_TAGS_PER_DOCUMENT
  /\ Len(Deduplicated(Capped(CollapsedTrimmedCut(response.body.tags))))
       = MAX_TAGS_PER_DOCUMENT - 1

\* The request that the Router is handling or has just answered
RouterRequest ==
  IF routerTurn.pc # "idle" THEN routerTurn.req ELSE routerResponse.req

\* The request does not authenticate: no credential, an invalid one, or no
\* secret configured to verify it with
NotAuthenticated(request) ==
  \/ TokenOf(request) \in {"none", "bad", "nouser"}
  \/ ~workerEnv.secret

\* C25: a call other than OPTIONS without a credential, with an invalid one
\* or in a deployment without the secret is answered Unauthorized, and no
\* actor receives a request on its behalf.
C25_AuthenticatedBeforeActors ==
  /\ /\ routerResponse # NoRouterResp
     /\ routerResponse.req.method # "OPTIONS"
     /\ NotAuthenticated(routerResponse.req)
     => /\ routerResponse.status = 401
        /\ routerCalls = <<>>
  /\ /\ RouterRequest # NoRequest
     /\ routerCalls # <<>>
     => ~NotAuthenticated(RouterRequest)

\* C26: no exception leaves the Router while it handles an authenticated
\* request, also not one raised by the call of an actor: the request is
\* answered with a response, an InternalError in the JSON shape.
C26_ExceptionsAnswered ==
  /\ routerResponse.shape # "thrown"
  /\ /\ routerResponse.shape = "json"
     /\ routerCalls # <<>>
     => routerResponse.status = 500

\* The origin that the claim C27 names for a request that has an Origin
ClaimedOrigin(requestOrigin, configuredOrigins) ==
  IF Includes(configuredOrigins, requestOrigin) \/ Includes(configuredOrigins, "*")
  THEN requestOrigin
  ELSE IF configuredOrigins # Unset THEN configuredOrigins[1]
       ELSE requestOrigin

\* The response of the last step was built by the Router
BuiltByRouter == routerResponse.shape \in {"empty", "json", "forwarded"}

\* C27: every response that the Router builds for a request with an Origin,
\* the one to OPTIONS included, has as Access-Control-Allow-Origin the
\* request's Origin when the configured list holds it or holds a wildcard,
\* else the first configured origin, or the request's Origin when no list is
\* configured; and it allows credentials and has Vary: Origin.
C27_CorsOrigin ==
  BuiltByRouter /\ routerResponse.req.origin # NoHeader =>
    /\ routerResponse.cors.allowOrigin
         = ClaimedOrigin(routerResponse.req.origin, workerEnv.allowed)
    /\ routerResponse.cors.credentials
    /\ routerResponse.cors.vary = "Origin"

\* C28: at most one storage.put of the slot 'document' is in flight, whether
\* writeDocument issued it (lines 856 and 883) or persistNow for a realtime
\* update or for the flush of webSocketClose (line 940).
C28_OneWriteInFlight == Len(putQueue) <= 1

\* No persistence is in flight: persistPromise is null and no storage.put of
\* the slot is pending
NoPersistenceInFlight == persist = NoPersist /\ putQueue = <<>>

\* C29: whenever no persistence is in flight and the dirty flag is clear, the
\* record in storage is the record in memory: an update that arrived while a
\* persistence was in flight left the flag set and was persisted again.
C29_CleanMeansPersisted ==
  NoPersistenceInFlight /\ ~dirty /\ document # NoDoc => storage = document

\* C30: the fan-out of an accepted realtime update is best-effort.  In what
\* a step sends, the ack to the sender precedes every remote-update; and when
\* the handler of an update returns while sends to a peer throw, every other
\* connected socket whose send succeeds still gets the remote-update with the
\* record, the failing peer gets nothing and stays in the session set, and
\* the record in memory, the storage slot, the dirty flag and the pending
\* writes are as they were.
C30_FanOutBestEffort ==
  [][ /\ \A i, j \in 1..Len(sent') :
           sent'[i].msg.type = "ack" /\ sent'[j].msg.type = "remote-update" => i < j
      /\ \A t \in Turns :
           UpdateReturns(t) /\ turn[t].ws \notin broken =>
             /\ connections[turn[t].ws] # NoSession =>
                  /\ sent' # <<>>
                  /\ sent'[1].to = turn[t].ws
                  /\ sent'[1].msg.type = "ack"
             /\ \A s \in Registered \ (broken \cup {turn[t].ws}) :
                  \E i \in SentTo(sent', s) :
                    /\ sent'[i].msg.type = "remote-update"
                    /\ sent'[i].msg.document = turn[t].rec
             /\ \A s \in broken : SentTo(sent', s) = {}
             /\ connections' = connections
             /\ document' = document
             /\ storage' = storage
             /\ dirty' = dirty
             /\ putQueue' = putQueue
    ]_vars

\* Sends to the session s2 throw; an update of s1 was acknowledged to s1 and
\* then fanned out to s3, which follows s2 in the session set, and s2 is still
\* a session
C30_Witness ==
  /\ broken = {"s2"}
  /\ connections["s2"] # NoSession
  /\ Len(sent) = 2
  /\ sent[1].to = "s1"
  /\ sent[1].msg.type = "ack"
  /\ sent[2].to = "s3"
  /\ sent[2].msg.type = "remote-update"
  /\ sent[2].msg.document = sent[1].msg.document
  /\ storage.version >= 2

\* C31: every entry of the index refers to a document whose Document Actor
\* has a record, owned by the user the index is pinned to, with a version that
\* is at least the version of the entry.
C31_EntriesFollowDocuments ==
  \A d \in IndexedIds :
    /\ d \in DocIds
    /\ ActorRecord # NoDoc
    /\ ActorRecord.docId = d
    /\ ActorRecord.ownerId = indexStore.userId
    /\ ActorRecord.version >= indexStore.index[d].version

\* The storage.put that fails in this step was issued for a write: by
\* writeDocument, or by persistNow for a realtime update
WriteFails ==
  /\ PutFail
  /\ \/ Head(putQueue).by \in Turns
     \/ \E t \in Turns : turn[t].pc = "wait" /\ turn[t].op = "update"

\* C32: a write whose storage.put fails is reported as an error to its
\* caller and is not accepted: the step sends no ack and returns no success
\* response but an error, and the record that reads return afterwards is not
\* the record of the failed write and has a lower version, so that the next
\* accepted write gets the version of the failed one.
C32_FailedWriteNotAccepted ==
  [][ WriteFails =>
        /\ \A i \in 1..Len(sent') : sent'[i].msg.type # "ack"
        /\ response'.status \notin {200, 201}
        /\ \/ response'.status = 500
           \/ \E i \in 1..Len(sent') : sent'[i].msg.type = "error"
        /\ ActorRecord' # Head(putQueue).rec
        /\ ActorRecord'.version < Head(putQueue).rec.version
    ]_vars

\* C33: the user id of every session of the session set is the ownerId of the
\* record, and no step closes a socket with the code 4403 (line 771).
C33_SessionsAreOwners ==
  /\ ActorRecord # NoDoc =>
       \A s \in Registered : connections[s] = ActorRecord.ownerId
  /\ \A i \in 1..Len(sent) : sent[i].msg.type # "close-4403"

\* Nothing is going on: no handler of a realtime update, of a create or of an
\* update has yet to return, no handler waits for a persistence operation and
\* none is in flight
AllReturned ==
  /\ \A t \in Turns : turn[t].pc = "idle"
  /\ \A i \in IndexTurns : indexTurn[i].pc = "idle"
  /\ NoPersistenceInFlight

\* C34: under fair scheduling and without failures every realtime update is
\* acked and every create and update that the Index Actor forwards returns,
\* also while a push of the Document Actor is in flight to the Index Actor,
\* and the wait-and-retry of persistNow ends with no persistence operation in
\* flight.  The clients send finitely many requests, so this is: in the end
\* nothing is going on for good, and a handler of an update that returns has
\* sent the ack to its socket.
C34_Progress ==
  /\ <>[]AllReturned
  /\ [][ \A t \in Turns :
           UpdateReturns(t) =>
             \E k \in 1..Len(sent') :
               /\ sent'[k].to = turn[t].ws
               /\ sent'[k].msg.type = "ack"
               /\ sent'[k].msg.document = turn[t].rec
       ]_vars

\* A push of the Document Actor is being handled by the Index Actor while an
\* update that the Index Actor forwarded is being written by the Document
\* Actor and a realtime update waits for the persistence
C34_Witness ==
  /\ persist.stage = "sync"
  /\ \E i \in IndexTurns : indexTurn[i].origin = "doc" /\ indexTurn[i].pc # "idle"
  /\ \E i \in IndexTurns : indexTurn[i].pc = "fwdWait" /\ indexTurn[i].op = "update"
  /\ \E t \in Turns : turn[t].op = "write" /\ turn[t].pc = "put"
  /\ \E t \in Turns : turn[t].op = "update" /\ turn[t].pc = "wait"

\* ------------------------------------------------------------------------
\* Properties of the client
\* ------------------------------------------------------------------------
\* The connection of the client is open on the document it shows
ClientConnected ==
  /\ ClientOpen(client, channel)
  /\ client.realtimeDocId = client.docId

\* Nothing of the client is unsaved or unacknowledged
ClientSaved ==
  /\ client.pendingAckIds = {}
  /\ ~client.isDirty

\* C35: if the user stops editing and the connection stays open on the same
\* document from some point on, then every outstanding ack id is eventually
\* removed and the dirty flag eventually becomes false and stays so, also
\* when a connection closed between an update and its ack
C35_SaveStateConverges == <>[]ClientConnected => <>[]ClientSaved

\* The step assigns null to pendingRealtimePayload after a switch to another
\* document or the creation of a new one
PayloadCleared == client'.docId # client.docId

\* The last payload captured for the document shown holds an edit: it
\* differs from the content that was loaded
EditCaptured ==
  /\ client.lastCaptured # NoCapture
  /\ client.lastCaptured.content # ContentOrder[1]

\* C36: the client never discards an unsent edit: whenever the pending
\* payload is cleared after a switch or a creation, the last payload captured
\* for the previous document, if it holds an edit, has been sent on an open
\* socket
C36_NoUnsentEditDiscarded ==
  [][ PayloadCleared /\ EditCaptured =>
        client.lastCaptured \in client.sentLog ]_vars

====
